---- MODULE Spec2Model ----
(***************************************************************************)
(* Model of the publishing queue (src/src/listing/queue_manager.py) and of *)
(* the batch processor (src/src/listing/batch_processor.py).               *)
(*                                                                         *)
(* Time is counted in minutes.  Every coroutine is cut at its awaits: one  *)
(* action is the code that runs between two suspension points.             *)
(***************************************************************************)
EXTENDS Integers, Sequences, FiniteSets, TLC

\* ------------------------------------------------------------------ bounds
MaxItems == 2
MaxLoops == 2
MaxTime == 30
max_concurrent == 1
MaxProducts == 4
MaxBatchSize == 2
MaxBatches == 2
MaxThreshold == 2
MaxGpuDepth == 2
MaxDICalls == 4
MaxPushed == 4
MaxGathered == 2

\* ------------------------------------------------------- program constants
\* Two process_batch calls on one BatchProcessor.
CallIds == {1, 2}

\* A process_batch call that has not been made: where the call is, what its
\* chunk tasks will return (ok, bad), the lengths of its lists successful and
\* failed, the count its throughput was computed from and the counts it
\* passed to the metrics sink.
NoCall == [pc |-> "idle", ok |-> 0, bad |-> 0, successful |-> 0, failed |-> 0,
           used |-> 0, processed |-> 0, reported_failed |-> 0]

\* The names services are registered under in the DIContainer.
ServiceNames == {"config", "monitoring", "worker"}

LOW == 3
NORMAL == 2
HIGH == 1
URGENT == 0
MaxRetries == 3
BackoffMinutes == 5
GpuBatchOver == 20
\* The smallest chunk that takes the GPU path.
LargeChunk == GpuBatchOver + 1

ItemIds == 1..MaxItems
LoopIds == 1..MaxLoops

\* Priority values a caller passes to add_to_queue.
Priorities == {URGENT, NORMAL}

\* Marketplaces a caller names; only those of RegisteredPublishers have a
\* publisher.  "ebay" is an EbayPublisher, "shop" any other BasePublisher.
Marketplaces == {"ebay", "shop", "amazon"}
RegisteredPublishers == {"ebay", "shop"}

\* Listings, reduced to the fields validate_listing reads.
GoodListing == [required |-> TRUE, title_len |-> 80, price |-> 1]
LongTitleListing == [required |-> TRUE, title_len |-> 81, price |-> 1]
Listings == {GoodListing, LongTitleListing}

\* scheduled_at of a submission, relative to now: none given, or one backoff
\* period ahead.
ScheduleDelays == {0, BackoffMinutes}

\* What callers submit: a listing for a marketplace.
Submissions ==
  { [listing |-> GoodListing, marketplace |-> "ebay"],
    [listing |-> LongTitleListing, marketplace |-> "ebay"],
    [listing |-> GoodListing, marketplace |-> "shop"],
    [listing |-> GoodListing, marketplace |-> "amazon"] }

NoListing == [required |-> FALSE, title_len |-> 0, price |-> 0]
NoItem == [priority |-> 0, scheduled_at |-> 0, listing |-> NoListing,
           marketplace |-> "", retries |-> 0]

VARIABLES
  clock,         \* datetime.now(), in minutes
  items,         \* the QueueItem objects, by identity
  nextId,        \* identity of the next QueueItem constructed
  queue,         \* PublishingQueue.queue: the heap array (item identities)
  active_tasks,  \* PublishingQueue.active_tasks: task id -> task
  results,       \* PublishingQueue.results: id(item) -> PublishResult
  _running,      \* PublishingQueue._running
  _publishers,   \* PublishingQueue._publishers (the registered marketplaces)
  loops,         \* the _process_queue coroutines: position and local `now`
  dispatched     \* items handed to _publish_item by the last step, in order

qvars == <<clock, items, nextId, queue, active_tasks, results, _running,
           _publishers, loops, dispatched>>

VARIABLES
  pc,               \* where the process_batch call is
  products,         \* process_batch(products): the input items
  batch_size,       \* BatchConfig.batch_size
  retry_failed,     \* BatchConfig.retry_failed
  enable_gpu,       \* BatchConfig.enable_gpu
  max_concurrent_batches, \* BatchConfig.max_concurrent_batches
  backpressure_threshold, \* BatchConfig.backpressure_threshold
  batches,          \* what _create_batches returned
  chunk_tasks,            \* per chunk, its process_with_semaphore task
  batch_results,    \* per chunk, what _process_single_batch returned
  semaphore,        \* _process_batches_concurrent: free slots of `semaphore`
  _processing_semaphore, \* free permits of BatchProcessor._processing_semaphore
  pool_open,        \* process_pool accepts work (shutdown not called)
  successful,       \* process_batch: successful
  failed,           \* process_batch: failed
  retry_results,    \* _retry_failed_items: retry_results
  _processed_count, \* BatchProcessor._processed_count
  _failed_count,    \* BatchProcessor._failed_count
  raised_by,            \* what made process_batch raise ("" while it has not)
  total_time,       \* process_batch: total_time
  throughput        \* process_batch: throughput, as the fraction num / den

bvars == <<pc, products, batch_size, retry_failed, enable_gpu,
           max_concurrent_batches, backpressure_threshold, batches, chunk_tasks,
           batch_results, semaphore, _processing_semaphore, pool_open,
           successful, failed, retry_results, _processed_count, _failed_count,
           raised_by, total_time, throughput>>

VARIABLES
  stream_pc,        \* where the process_stream generator is ("off": not used)
  source,           \* item_generator: the number of items it yields
  consumed,         \* how many items process_stream has taken from it
  window,           \* process_stream: window
  flushes,          \* the windows handed to process_batch, in order
  yielded           \* per window handed over, the results yielded so far

svars == <<stream_pc, source, consumed, window, flushes, yielded>>

VARIABLES
  mp_pc,            \* where the MultiPlatformPublisher.publish call is
  listing_data,     \* publish(listing_data, ...)
  platforms,        \* publish(..., platforms, ...): None is NoPlatforms
  with_retry,       \* publish(..., retry_failed)
  side_effect,      \* what a platform's publish does on its successive calls
  platform_at,      \* publish: position of `for platform in platforms`
  publish_results,  \* publish: results
  invoked           \* the calls made on platform publishers, in order

mvars == <<mp_pc, listing_data, platforms, with_retry, side_effect,
           platform_at, publish_results, invoked>>

VARIABLES
  _factories,       \* DIContainer._factories, in insertion order
  _singletons,      \* DIContainer._singletons, in insertion order
  _is_started,      \* DIContainer._is_started
  factory_calls,    \* per service name, how often its factory was invoked
  resolved,         \* per service name, what resolve has returned, in order
  lifecycle_calls,  \* the service start/stop calls made by the last call
  di_calls          \* how many resolve, start and stop calls were made

dvars == <<_factories, _singletons, _is_started, factory_calls, resolved,
           lifecycle_calls, di_calls>>

VARIABLES
  batch_calls       \* two overlapping process_batch calls: position and locals

VARIABLES
  pq_items,         \* the QueueItem objects pushed, by order of arrival
  pq,               \* a heap of them, as add_to_queue and the loop keep it
  pq_popped         \* the items popped, in order, with the heap's length

ovars == <<mvars, dvars, batch_calls, pq_items, pq, pq_popped>>

vars == <<qvars, bvars, svars, ovars>>

\* ------------------------------------------------------------------- heapq
\* Mutation: the comparison of priorities inverted.
ItemLessInverted(its, a, b) == its[a].priority > its[b].priority

\* Mutation: among equal priorities the item added first compares lower.
ItemLessFifo(its, a, b) ==
  \/ its[a].priority < its[b].priority
  \/ its[a].priority = its[b].priority /\ a < b

\* QueueItem is a dataclass(order=True) whose only compared field is priority.
ItemLess(its, a, b) == its[a].priority < its[b].priority

\* heapq._siftdown(heap, startpos, pos), positions 0-based.
RECURSIVE SiftDownFrom(_, _, _, _, _)
SiftDownFrom(its, heap, startpos, pos, newitem) ==
  IF pos > startpos /\ ItemLess(its, newitem, heap[((pos - 1) \div 2) + 1])
  THEN SiftDownFrom(its, [heap EXCEPT ![pos + 1] = heap[((pos - 1) \div 2) + 1]],
                    startpos, (pos - 1) \div 2, newitem)
  ELSE [heap EXCEPT ![pos + 1] = newitem]

siftdown(its, heap, startpos, pos) ==
  SiftDownFrom(its, heap, startpos, pos, heap[pos + 1])

\* heapq._siftup(heap, pos): bubble the smaller child up to a leaf, then
\* sift the displaced item down.
RECURSIVE SiftUpFrom(_, _, _, _, _)
SiftUpFrom(its, heap, startpos, pos, newitem) ==
  LET endpos == Len(heap)
      childpos == 2 * pos + 1
      rightpos == childpos + 1
      child == IF rightpos < endpos
                  /\ ~ItemLess(its, heap[childpos + 1], heap[rightpos + 1])
               THEN rightpos ELSE childpos
  IN IF childpos < endpos
     THEN SiftUpFrom(its, [heap EXCEPT ![pos + 1] = heap[child + 1]],
                     startpos, child, newitem)
     ELSE siftdown(its, [heap EXCEPT ![pos + 1] = newitem], startpos, pos)

siftup(its, heap, pos) == SiftUpFrom(its, heap, pos, pos, heap[pos + 1])

heappush(its, heap, item) ==
  siftdown(its, Append(heap, item), 0, Len(heap))

\* heappop returns heap[0]; this is the heap it leaves.
heappop(its, heap) ==
  LET lastelt == heap[Len(heap)]
      rest == SubSeq(heap, 1, Len(heap) - 1)
  IN IF rest = <<>> THEN rest
     ELSE siftup(its, [rest EXCEPT ![1] = lastelt], 0)

\* ------------------------------------------------------------- publishers
PublishResult(marketplace, status, error) ==
  [marketplace |-> marketplace, status |-> status, error |-> error]

\* EbayPublisher.validate_listing: required fields, title of at most 80
\* characters, positive price.
validate_listing(listing) ==
  /\ listing.required
  /\ ~(listing.title_len > 80)
  /\ ~(listing.price <= 0)

\* EbayPublisher._do_publish: the results it can return.  An exception of the
\* eBay client is caught there and comes back as a FAILED result.
do_publish_ebay ==
  { PublishResult("ebay", "published", ""),
    PublishResult("ebay", "failed", "LongMessage"),
    PublishResult("ebay", "failed", "str(e)") }

\* BasePublisher.publish, as far as it returns: the validation result, or
\* what _do_publish returns.
publish_returns(item) ==
  IF ~validate_listing(item.listing)
  THEN { PublishResult(item.marketplace, "failed", "Validation failed") }
  ELSE IF item.marketplace = "ebay" THEN do_publish_ebay
       ELSE { PublishResult(item.marketplace, "published", "") }

\* Mutation: a listing that fails validation raises instead of returning.
publish_raises_any(item) == TRUE

\* BasePublisher.publish can raise when _do_publish raises (a publisher
\* that, unlike EbayPublisher, lets the exception of its API call through).
publish_can_raise(item) ==
  validate_listing(item.listing) /\ item.marketplace # "ebay"

\* _get_publisher: whether the marketplace has a publisher.
get_publisher(marketplace) == marketplace \in _publishers

\* ------------------------------------------------------------ the queue
NoLoop == [pc |-> "none", now |-> 0]

InQueue(i) == \E k \in 1..Len(queue) : queue[k] = i
IsRunning(i) == i \in DOMAIN active_tasks /\ active_tasks[i].state = "running"
IsDone(i) == i \in DOMAIN active_tasks /\ active_tasks[i].state = "done"
AliveLoops == {l \in LoopIds : loops[l].pc # "none"}
FreeLoops == {l \in LoopIds : loops[l].pc = "none"}

\* asyncio.create_task(self._process_queue()): a new coroutine, not yet run.
create_loop(ls) ==
  LET l == CHOOSE f \in FreeLoops : \A g \in FreeLoops : f <= g
  IN [ls EXCEPT ![l] = [pc |-> "created", now |-> 0]]

\* add_to_queue(listing, marketplace, priority, scheduled_at); delay = 0 is
\* the call without scheduled_at.
add_to_queue(listing, marketplace, priority, delay) ==
  /\ nextId <= MaxItems
  /\ _running \/ FreeLoops # {}
  /\ items' = [items EXCEPT ![nextId] =
                 [priority |-> priority, scheduled_at |-> clock + delay,
                  listing |-> listing, marketplace |-> marketplace,
                  retries |-> 0]]
  /\ queue' = heappush(items', queue, nextId)
  /\ nextId' = nextId + 1
  /\ loops' = IF ~_running THEN create_loop(loops) ELSE loops
  /\ dispatched' = <<>>
  /\ UNCHANGED <<clock, active_tasks, results, _running, _publishers>>
  /\ UNCHANGED bvars
  /\ UNCHANGED svars
  /\ UNCHANGED ovars

\* The inner while of _process_queue, from its test to the next await: pop
\* and start every due head while a slot is free.
\* Mutation: off by one in the concurrency test.
under_limit_off_by_one(tasks) == Cardinality(DOMAIN tasks) <= max_concurrent

\* `len(self.active_tasks) < self.max_concurrent`
under_limit(tasks) == Cardinality(DOMAIN tasks) < max_concurrent

\* Mutation: the head is started as soon as any queued item is due.
is_due_any(item, now) ==
  \E k \in 1..Len(queue) : items[queue[k]].scheduled_at <= now

\* Mutation: the head is started whether or not it is due.
is_due_ignored(item, now) == TRUE

\* `self.queue[0].scheduled_at <= now`
is_due(item, now) == item.scheduled_at <= now

RECURSIVE InnerWhile(_, _, _, _)
InnerWhile(q, tasks, now, log) ==
  IF q # <<>> /\ under_limit(tasks)
  THEN IF is_due(items[q[1]], now)
       THEN InnerWhile(heappop(items, q),
                       [t \in DOMAIN tasks \cup {q[1]} |->
                          IF t = q[1]
                          THEN [state |-> "running", result |-> PublishResult("", "pending", "")]
                          ELSE tasks[t]],
                       now, Append(log, q[1]))
       ELSE [queue |-> q, tasks |-> tasks, log |-> log, pc |-> "inner_sleep"]
  ELSE [queue |-> q, tasks |-> tasks, log |-> log, pc |-> "outer_sleep"]

\* Mutation: the loop ends as soon as the queue is empty.
work_left_in_queue(q, tasks) == q # <<>>

\* `while self.queue or self.active_tasks`
work_left(q, tasks) == q # <<>> \/ DOMAIN tasks # {}

\* One pass of the outer while of _process_queue, from its test.
OuterWhile(l) ==
  IF work_left(queue, active_tasks)
  THEN LET r == InnerWhile(queue, active_tasks, clock, <<>>)
       IN /\ queue' = r.queue
          /\ active_tasks' = r.tasks
          /\ dispatched' = r.log
          /\ loops' = [loops EXCEPT ![l] =
                         [pc |-> r.pc,
                          now |-> IF r.pc = "inner_sleep" THEN clock ELSE 0]]
          /\ UNCHANGED _running
  ELSE /\ _running' = FALSE
       /\ loops' = [loops EXCEPT ![l] = NoLoop]
       /\ dispatched' = <<>>
       /\ UNCHANGED <<queue, active_tasks>>

\* _process_queue runs for the first time.
LoopStart(l) ==
  /\ loops[l].pc = "created"
  /\ IF work_left(queue, active_tasks)
     THEN LET r == InnerWhile(queue, active_tasks, clock, <<>>)
          IN /\ queue' = r.queue
             /\ active_tasks' = r.tasks
             /\ dispatched' = r.log
             /\ loops' = [loops EXCEPT ![l] =
                            [pc |-> r.pc,
                             now |-> IF r.pc = "inner_sleep" THEN clock ELSE 0]]
             /\ _running' = TRUE
     ELSE /\ _running' = FALSE
          /\ loops' = [loops EXCEPT ![l] = NoLoop]
          /\ dispatched' = <<>>
          /\ UNCHANGED <<queue, active_tasks>>
  /\ UNCHANGED <<clock, items, nextId, results, _publishers>>
  /\ UNCHANGED bvars
  /\ UNCHANGED svars
  /\ UNCHANGED ovars

\* _process_queue resumes after `await asyncio.sleep(0.1)`.
LoopWakeOuter(l) ==
  /\ loops[l].pc = "outer_sleep"
  /\ OuterWhile(l)
  /\ UNCHANGED <<clock, items, nextId, results, _publishers>>
  /\ UNCHANGED bvars
  /\ UNCHANGED svars
  /\ UNCHANGED ovars

\* _process_queue resumes after `await asyncio.sleep(min(wait_time, 1))`,
\* inside the inner while, with the `now` it read before sleeping.
LoopWakeInner(l) ==
  /\ loops[l].pc = "inner_sleep"
  /\ LET r == InnerWhile(queue, active_tasks, loops[l].now, <<>>)
     IN /\ queue' = r.queue
        /\ active_tasks' = r.tasks
        /\ dispatched' = r.log
        /\ loops' = [loops EXCEPT ![l] =
                       [pc |-> r.pc,
                        now |-> IF r.pc = "inner_sleep" THEN loops[l].now ELSE 0]]
  /\ UNCHANGED <<clock, items, nextId, results, _running, _publishers>>
  /\ UNCHANGED bvars
  /\ UNCHANGED svars
  /\ UNCHANGED ovars

\* Mutation: off by one in the retry test.
should_retry_off_by_one(retries) == retries <= MaxRetries

\* `if item.retries < 3` of _publish_item.
should_retry(retries) == retries < MaxRetries

\* Mutation: the delay doubles with each retry (5, 10, 20 minutes).
retry_time_doubling(now, retries) ==
  now + BackoffMinutes * 2 ^ (retries - 1)

\* `datetime.now() + timedelta(minutes=5 * item.retries)`, retries already
\* incremented.
retry_time(now, retries) == now + BackoffMinutes * retries

finish_task(i, result) ==
  [active_tasks EXCEPT ![i] = [state |-> "done", result |-> result]]

\* _publish_item when _get_publisher finds nothing: a FAILED result is
\* returned and nothing else happens.
PublishNoPublisher(i) ==
  /\ IsRunning(i)
  /\ ~get_publisher(items[i].marketplace)
  /\ active_tasks' = finish_task(i, PublishResult(items[i].marketplace, "failed",
                                                  "No publisher registered"))
  /\ dispatched' = <<>>
  /\ UNCHANGED <<clock, items, nextId, queue, results, _running, _publishers,
                 loops>>
  /\ UNCHANGED bvars
  /\ UNCHANGED svars
  /\ UNCHANGED ovars

\* _publish_item when publisher.publish returns a result: it is stored
\* under id(item) and returned.
PublishReturns(i, result) ==
  /\ IsRunning(i)
  /\ get_publisher(items[i].marketplace)
  /\ result \in publish_returns(items[i])
  /\ results' = [t \in DOMAIN results \cup {i} |->
                   IF t = i THEN result ELSE results[t]]
  /\ active_tasks' = finish_task(i, result)
  /\ dispatched' = <<>>
  /\ UNCHANGED <<clock, items, nextId, queue, _running, _publishers, loops>>
  /\ UNCHANGED bvars
  /\ UNCHANGED svars
  /\ UNCHANGED ovars

\* _publish_item when publisher.publish raises: the except branch.
PublishRaises(i) ==
  /\ IsRunning(i)
  /\ get_publisher(items[i].marketplace)
  /\ publish_can_raise(items[i])
  /\ IF should_retry(items[i].retries)
     THEN /\ items' = [items EXCEPT
                         ![i].retries = @ + 1,
                         ![i].scheduled_at = retry_time(clock, items[i].retries + 1)]
          /\ queue' = heappush(items', queue, i)
     ELSE UNCHANGED <<items, queue>>
  /\ active_tasks' = finish_task(i, PublishResult(items[i].marketplace, "failed",
                                                  "str(e)"))
  /\ dispatched' = <<>>
  /\ UNCHANGED <<clock, nextId, results, _running, _publishers, loops>>
  /\ UNCHANGED bvars
  /\ UNCHANGED svars
  /\ UNCHANGED ovars

\* The QueueItem objects nothing refers to any more are gone.
collect(its, q, tasks) ==
  [i \in ItemIds |->
     IF (\E k \in 1..Len(q) : q[k] = i) \/ i \in DOMAIN tasks
     THEN its[i] ELSE NoItem]

\* Mutation: the head of the queue survives.
cleared_but_head(q) == << q[1] >>

\* self.queue.clear()
cleared(q) == <<>>

\* The done callback of a publish task: active_tasks.pop(tid, None).
TaskDone(i) ==
  /\ IsDone(i)
  /\ active_tasks' = [t \in DOMAIN active_tasks \ {i} |-> active_tasks[t]]
  /\ items' = collect(items, queue, active_tasks')
  /\ dispatched' = <<>>
  /\ UNCHANGED <<clock, nextId, queue, results, _running, _publishers, loops>>
  /\ UNCHANGED bvars
  /\ UNCHANGED svars
  /\ UNCHANGED ovars

clear_queue ==
  /\ queue # <<>>
  /\ queue' = cleared(queue)
  /\ items' = collect(items, queue', active_tasks)
  /\ dispatched' = <<>>
  /\ UNCHANGED <<clock, nextId, active_tasks, results, _running, _publishers,
                 loops>>
  /\ UNCHANGED bvars
  /\ UNCHANGED svars
  /\ UNCHANGED ovars

pause ==
  /\ _running
  /\ _running' = FALSE
  /\ dispatched' = <<>>
  /\ UNCHANGED <<clock, items, nextId, queue, active_tasks, results,
                 _publishers, loops>>
  /\ UNCHANGED bvars
  /\ UNCHANGED svars
  /\ UNCHANGED ovars

resume ==
  /\ ~_running /\ queue # <<>>
  /\ FreeLoops # {}
  /\ loops' = create_loop(loops)
  /\ dispatched' = <<>>
  /\ UNCHANGED <<clock, items, nextId, queue, active_tasks, results, _running,
                 _publishers>>
  /\ UNCHANGED bvars
  /\ UNCHANGED svars
  /\ UNCHANGED ovars

\* Time passes until the next queued item falls due.  A callback or a
\* coroutine scheduled with call_soon / create_task runs before the clock
\* (counted in minutes) moves.
FutureDue ==
  {t \in {items[queue[k]].scheduled_at : k \in 1..Len(queue)} :
     t > clock /\ t <= MaxTime}

Tick ==
  /\ FutureDue # {}
  /\ \A l \in LoopIds : loops[l].pc # "created"
  /\ \A i \in DOMAIN active_tasks : active_tasks[i].state # "done"
  /\ clock' = CHOOSE t \in FutureDue : \A u \in FutureDue : t <= u
  /\ dispatched' = <<>>
  /\ UNCHANGED <<items, nextId, queue, active_tasks, results, _running,
                 _publishers, loops>>
  /\ UNCHANGED bvars
  /\ UNCHANGED svars
  /\ UNCHANGED ovars

Next ==
  \/ \E s \in Submissions, priority \in Priorities, delay \in ScheduleDelays :
       add_to_queue(s.listing, s.marketplace, priority, delay)
  \/ \E l \in LoopIds : LoopStart(l)
  \/ \E l \in LoopIds : LoopWakeOuter(l)
  \/ \E l \in LoopIds : LoopWakeInner(l)
  \/ \E i \in ItemIds : PublishNoPublisher(i)
  \/ \E i \in ItemIds : \E result \in publish_returns(items[i]) :
       PublishReturns(i, result)
  \/ \E i \in ItemIds : PublishRaises(i)
  \/ \E i \in ItemIds : TaskDone(i)
  \/ clear_queue
  \/ pause
  \/ resume
  \/ Tick


\* ------------------------------------------------------ the batch processor
\* A result entry: an OptimizationResult (ok) or a failure dict, for an item.
Entry(ok, item, error) == [ok |-> ok, item |-> item, error |-> error]

Min(a, b) == IF a <= b THEN a ELSE b

\* Mutation: the items after the last full chunk are dropped.
create_batches_full_only(its, size) ==
  [k \in 1..(Len(its) \div size) |->
     SubSeq(its, (k - 1) * size + 1, k * size)]

\* _create_batches: items[i:i + batch_size] for i in range(0, len(items),
\* batch_size).
create_batches(its, size) ==
  LET starts == {i \in 0..(Len(its) - 1) : i % size = 0}
  IN [k \in 1..Cardinality(starts) |->
        SubSeq(its, (k - 1) * size + 1, Min((k - 1) * size + size, Len(its)))]

\* What a worker future ends with: the worker's OptimizationResult, the
\* worker's own error dict (_process_item_cpu catches), or an exception of
\* the future itself.
FutureOutcomes == {"ok", "processing_error", "exception"}

Ended == {"returned", "raised"}
Executing == {"acquire", "collect", "gpu"}

\* Mutation: every chunk takes the GPU path when the GPU is enabled.
uses_gpu_always(batch) == enable_gpu

\* `if self.config.enable_gpu and len(batch) > 20`
uses_gpu(batch) == enable_gpu /\ Len(batch) > GpuBatchOver

\* Mutation: a pool that was shut down still takes work.
pool_refuses_never == FALSE

\* loop.run_in_executor(self.process_pool, ...) after shutdown(): the pool
\* raises RuntimeError (cannot schedule new futures after shutdown).
pool_refuses == ~pool_open

\* The `for item in batch` loop of _process_single_batch from where the task
\* stands: each item takes a permit and is handed to the pool, with no
\* suspension while permits are free.  With no permit free the task blocks
\* in acquire(); when the pool refuses the item run_in_executor raises, after
\* the permit was taken.
RECURSIVE submit_items(_, _, _)
submit_items(t, batch, permits) ==
  IF Len(t.futures) = Len(batch)
  THEN [task |-> [t EXCEPT !.st = "collect"], permits |-> permits]
  ELSE IF permits = 0
       THEN [task |-> [t EXCEPT !.st = "acquire"], permits |-> permits]
       ELSE IF pool_refuses
            THEN [task |-> [t EXCEPT !.st = "raised", !.err = "submit"],
                  permits |-> permits - 1]
            ELSE submit_items([t EXCEPT !.futures = Append(@, "running")],
                              batch, permits - 1)

\* _process_single_batch up to its first suspension: the GPU path for a large
\* chunk when the GPU is enabled, else the CPU path.
single_batch(t, batch, permits) ==
  IF uses_gpu(batch)
  THEN [task |-> [t EXCEPT !.st = "gpu"], permits |-> permits]
  ELSE submit_items(t, batch, permits)

\* Mutation: the slot count of the chunk semaphore is not looked at.
slot_free_unchecked(slots) == TRUE

\* `async with semaphore`: a slot is free.
slot_free(slots) == slots > 0

\* A chunk task has moved to t (taking or returning permits): the task table,
\* the permits, the slot of the chunk semaphore (given back by `async with`
\* when the task ends, however it ends), the result gather keeps for the
\* chunk, and gather itself, which passes the first exception on to
\* process_batch at once while the other chunk tasks go on.
TaskMoves(k, t, permits, slots) ==
  /\ chunk_tasks' = [chunk_tasks EXCEPT ![k] = t]
  /\ _processing_semaphore' = permits
  /\ semaphore' = IF t.st \in Ended /\ chunk_tasks[k].st \notin Ended
                  THEN slots + 1 ELSE slots
  /\ batch_results' = IF t.st = "returned"
                      THEN [batch_results EXCEPT ![k] = t.results]
                      ELSE batch_results
  /\ pc' = IF t.st = "raised" /\ chunk_tasks[k].st # "raised" /\ pc = "gather"
           THEN "raised" ELSE pc
  /\ raised_by' = IF t.st = "raised" /\ chunk_tasks[k].st # "raised" /\ pc = "gather"
              THEN t.err ELSE raised_by
  /\ UNCHANGED <<products, batch_size, retry_failed, enable_gpu,
                 max_concurrent_batches, backpressure_threshold, batches,
                 pool_open, successful, failed, retry_results,
                 _processed_count, _failed_count, total_time, throughput>>
  /\ UNCHANGED qvars
  /\ UNCHANGED svars
  /\ UNCHANGED ovars

\* process_batch up to the gather of the chunk tasks.
ProcessBatchStart ==
  /\ pc = "idle"
  /\ stream_pc \in {"off", "flush", "last_flush"}
  /\ batches' = create_batches(products, batch_size)
  /\ chunk_tasks' = [k \in 1..Len(batches') |->
                       [st |-> "waiting", depth |-> 0, futures |-> <<>>,
                        completed |-> <<>>, taken |-> 0, results |-> <<>>,
                        err |-> ""]]
  /\ batch_results' = [k \in 1..Len(batches') |-> <<>>]
  /\ semaphore' = max_concurrent_batches
  /\ _processed_count' = 0
  /\ _failed_count' = 0
  /\ pc' = "gather"
  /\ UNCHANGED <<products, batch_size, retry_failed, enable_gpu,
                 max_concurrent_batches, backpressure_threshold,
                 _processing_semaphore, pool_open, successful, failed,
                 retry_results, raised_by, total_time, throughput>>
  /\ UNCHANGED qvars
  /\ UNCHANGED svars
  /\ UNCHANGED ovars

\* The chunk tasks, started in order, queue up on the chunk semaphore in
\* order; the first in line takes a free slot and runs _process_single_batch
\* up to its first suspension.
ChunkEnter(k) ==
  /\ k \in 1..Len(chunk_tasks)
  /\ chunk_tasks[k].st = "waiting"
  /\ \A j \in 1..(k - 1) : chunk_tasks[j].st # "waiting"
  /\ slot_free(semaphore)
  /\ LET r == single_batch(chunk_tasks[k], batches[k], _processing_semaphore)
     IN TaskMoves(k, r.task, r.permits, semaphore - 1)

\* A task blocked in acquire() is woken by a release and goes on submitting.
ChunkAcquires(k) ==
  /\ k \in 1..Len(chunk_tasks)
  /\ chunk_tasks[k].st = "acquire"
  /\ _processing_semaphore > 0
  /\ LET r == submit_items(chunk_tasks[k], batches[k], _processing_semaphore)
     IN TaskMoves(k, r.task, r.permits, semaphore)

\* A worker ends item n of chunk k: the future is done and its done callback
\* releases the item's permit, whatever has become of the chunk's task.  A
\* task that waits for the future finds it among the completed ones; after
\* the task has ended nothing looks at the future any more.
WorkerDone(k, n, outcome) ==
  /\ k \in 1..Len(chunk_tasks)
  /\ n \in 1..Len(chunk_tasks[k].futures)
  /\ chunk_tasks[k].futures[n] = "running"
  /\ IF chunk_tasks[k].st \in Ended
     THEN /\ outcome = "ok"
          /\ TaskMoves(k, [chunk_tasks[k] EXCEPT !.futures[n] = "unseen"],
                       _processing_semaphore + 1, semaphore)
     ELSE TaskMoves(k, [chunk_tasks[k] EXCEPT !.futures[n] = outcome,
                                             !.completed = Append(@, n)],
                    _processing_semaphore + 1, semaphore)

\* The object `for future in asyncio.as_completed(futures)` binds: a
\* coroutine made by as_completed, which is none of the futures (the futures
\* are 1..n here, the coroutine is 0).
as_completed_yields(n) == 0

\* futures.index(x): the position of x, or 0 where list.index raises
\* ValueError.
futures_index(futures, x) == IF x \in 1..Len(futures) THEN x ELSE 0

\* The handlers of asyncio.TimeoutError and of Exception in
\* _process_single_batch: results.append({'error': text, 'item':
\* batch[futures.index(future)]}); the ValueError of index leaves the
\* function (cause tells which handler it was in).
wait_failed(t, batch, n, text, cause) ==
  LET i == futures_index(t.futures, as_completed_yields(n))
  IN IF i = 0
     THEN [t EXCEPT !.st = "raised", !.err = cause]
     ELSE [t EXCEPT !.results = Append(@, Entry(FALSE, batch[i], text))]

\* `return results` once the as_completed loop has run once per future.
loop_end(t, batch) ==
  IF t.st = "collect" /\ Len(t.results) = Len(batch)
  THEN [t EXCEPT !.st = "returned"]
  ELSE t

\* wait_for gives the next completed future's outcome: the worker's value is
\* appended as it is, an exception of the future goes to the handler.
Collect(k) ==
  /\ k \in 1..Len(chunk_tasks)
  /\ chunk_tasks[k].st = "collect"
  /\ chunk_tasks[k].taken < Len(chunk_tasks[k].completed)
  /\ LET t == [chunk_tasks[k] EXCEPT !.taken = @ + 1]
         n == t.completed[t.taken]
         out == t.futures[n]
         batch == batches[k]
         t2 == IF out = "exception"
               THEN wait_failed(t, batch, n, "str(e)", "exception")
               ELSE [t EXCEPT !.results =
                       Append(@, Entry(out = "ok", batch[n],
                                       IF out = "ok" THEN "" ELSE out))]
     IN TaskMoves(k, loop_end(t2, batch), _processing_semaphore, semaphore)

\* wait_for times out: no future has completed within timeout_per_item.
WaitTimesOut(k) ==
  /\ k \in 1..Len(chunk_tasks)
  /\ chunk_tasks[k].st = "collect"
  /\ chunk_tasks[k].taken = Len(chunk_tasks[k].completed)
  /\ TaskMoves(k, loop_end(wait_failed(chunk_tasks[k], batches[k], 0, "Timeout",
                                       "timeout"), batches[k]),
               _processing_semaphore, semaphore)

\* How many of a chunk's items the GPU path builds a result for (the others
\* get a 'gpu_processing_error' entry).
GpuOkCounts(batch) == {0, Len(batch) - 1, Len(batch)}

\* _process_batch_gpu returns: one entry per item, in item order.
GpuReturns(k, m) ==
  /\ k \in 1..Len(chunk_tasks)
  /\ chunk_tasks[k].st = "gpu"
  /\ TaskMoves(k, [chunk_tasks[k] EXCEPT
                     !.st = "returned",
                     !.results = [n \in 1..Len(batches[k]) |->
                        Entry(n <= m, batches[k][n],
                              IF n <= m THEN "" ELSE "gpu_processing_error")]],
               _processing_semaphore, semaphore)

\* _process_batch_gpu fails (ImportError, or an exception of the optimizer):
\* both handlers call _process_single_batch(batch, ...) again, one call
\* deeper; past the interpreter's recursion limit the call raises
\* RecursionError, which leaves every handler on the way up.
GpuFails(k) ==
  /\ k \in 1..Len(chunk_tasks)
  /\ chunk_tasks[k].st = "gpu"
  /\ LET t == [chunk_tasks[k] EXCEPT !.depth = @ + 1]
         r == IF t.depth > MaxGpuDepth
              THEN [task |-> [t EXCEPT !.st = "raised", !.err = "recursion"],
                    permits |-> _processing_semaphore]
              ELSE single_batch(t, batches[k], _processing_semaphore)
     IN TaskMoves(k, r.task, r.permits, semaphore)

\* The aggregation loop of process_batch over the chunks' results.
RECURSIVE Flatten(_)
Flatten(seqs) ==
  IF seqs = <<>> THEN <<>> ELSE Head(seqs) \o Flatten(Tail(seqs))

SelectOk(entries) == SelectSeq(entries, LAMBDA e : e.ok)
SelectFailed(entries) == SelectSeq(entries, LAMBDA e : ~e.ok)

\* Mutation: a retried success is added to successful and left in failed.
merge_retry_keep_failed(succ, fail, retried) ==
  [raised |-> FALSE, successful |-> succ \o SelectOk(retried), failed |-> fail,
   moved |-> Len(SelectOk(retried))]

\* `for result in retry_results` of process_batch: the first
\* OptimizationResult is appended to successful, and failed.remove(result)
\* then raises ValueError, since failed holds only failure dicts.
RECURSIVE merge_retry(_, _, _)
merge_retry(succ, fail, retried) ==
  IF retried = <<>>
  THEN [raised |-> FALSE, successful |-> succ, failed |-> fail, moved |-> 0]
  ELSE IF Head(retried).ok
       THEN IF \E n \in 1..Len(fail) : fail[n] = Head(retried)
            THEN LET n == CHOOSE m \in 1..Len(fail) :
                            /\ fail[m] = Head(retried)
                            /\ \A j \in 1..(m - 1) : fail[j] # Head(retried)
                     r == merge_retry(Append(succ, Head(retried)),
                                      SubSeq(fail, 1, n - 1) \o
                                        SubSeq(fail, n + 1, Len(fail)),
                                      Tail(retried))
                 IN [r EXCEPT !.moved = @ + 1]
            ELSE [raised |-> TRUE, successful |-> Append(succ, Head(retried)),
                  failed |-> fail, moved |-> 0]
       ELSE merge_retry(succ, fail, Tail(retried))

\* Where process_batch goes after the aggregation and the retry pass: to
\* the metrics and the return, unless it raised.
finish(raised) == IF raised THEN "raised" ELSE "metrics"

\* Mutation: the retry pass runs whatever retry_failed says.
retry_pass_unconditional(cfg, fail) == fail # <<>>

\* `if self.config.retry_failed and failed`
retry_pass(cfg, fail) == cfg /\ fail # <<>>

\* gather has returned: the aggregation loop, then the retry pass if there
\* is one to run.
Aggregate ==
  /\ pc = "gather"
  /\ \A k \in 1..Len(chunk_tasks) : chunk_tasks[k].st = "returned"
  /\ successful' = SelectOk(Flatten(batch_results))
  /\ failed' = SelectFailed(Flatten(batch_results))
  /\ _processed_count' = Len(successful')
  /\ _failed_count' = Len(failed')
  /\ pc' = IF retry_pass(retry_failed, failed') THEN "retry" ELSE finish(FALSE)
  /\ UNCHANGED <<products, batch_size, retry_failed, enable_gpu,
                 max_concurrent_batches, backpressure_threshold, batches,
                 chunk_tasks, batch_results, semaphore, _processing_semaphore,
                 pool_open, retry_results, raised_by, total_time, throughput>>
  /\ UNCHANGED qvars
  /\ UNCHANGED svars
  /\ UNCHANGED ovars

\* _retry_failed_items retries the next failed entry, once, with
\* _optimize_single_item under wait_for; after the last one process_batch
\* merges the retry results.
RetryItem(ok) ==
  /\ pc = "retry"
  /\ Len(retry_results) < Len(failed)
  /\ LET item == failed[Len(retry_results) + 1].item
         retried == Append(retry_results,
                           Entry(ok, item, IF ok THEN "" ELSE "Retry failed"))
     IN /\ retry_results' = retried
        /\ IF Len(retried) = Len(failed)
           THEN LET m == merge_retry(successful, failed, retried)
                IN /\ successful' = m.successful
                   /\ failed' = m.failed
                   /\ _processed_count' = _processed_count + m.moved
                   /\ _failed_count' = _failed_count - m.moved
                   /\ pc' = finish(m.raised)
                   /\ raised_by' = IF m.raised THEN "remove" ELSE raised_by
           ELSE UNCHANGED <<pc, successful, failed, _processed_count,
                            _failed_count, raised_by>>
  /\ UNCHANGED <<products, batch_size, retry_failed, enable_gpu,
                 max_concurrent_batches, backpressure_threshold, batches,
                 chunk_tasks, batch_results, semaphore, _processing_semaphore,
                 pool_open, total_time, throughput>>
  /\ UNCHANGED qvars
  /\ UNCHANGED svars
  /\ UNCHANGED ovars

\* The fraction num / den; 0 is 0 / 1.
Fraction(num, den) == [num |-> num, den |-> den]

\* Mutation: the division is made whatever total_time is.
throughput_unguarded(processed, elapsed) == Fraction(processed, elapsed)

\* `self._processed_count / total_time if total_time > 0 else 0`
throughput_of(processed, elapsed) ==
  IF elapsed > 0 THEN Fraction(processed, elapsed) ELSE Fraction(0, 1)

\* time.time() - self._start_time: the wall clock may not have advanced, or
\* may have been set back.
ElapsedTimes == {-1, 0, 2}

\* The end of process_batch: total_time, throughput, the metrics and the
\* BatchResult.
Finish(elapsed) ==
  /\ pc = "metrics"
  /\ total_time' = elapsed
  /\ throughput' = throughput_of(_processed_count, elapsed)
  /\ pc' = "returned"
  /\ UNCHANGED <<products, batch_size, retry_failed, enable_gpu,
                 max_concurrent_batches, backpressure_threshold, batches,
                 chunk_tasks, batch_results, semaphore, _processing_semaphore,
                 pool_open, successful, failed, retry_results,
                 _processed_count, _failed_count, raised_by>>
  /\ UNCHANGED qvars
  /\ UNCHANGED svars
  /\ UNCHANGED ovars

\* shutdown(): the pools take no more work.
shutdown ==
  /\ pool_open
  /\ pool_open' = FALSE
  /\ UNCHANGED <<pc, products, batch_size, retry_failed, enable_gpu,
                 max_concurrent_batches, backpressure_threshold, batches,
                 chunk_tasks, batch_results, semaphore, _processing_semaphore,
                 successful, failed, retry_results, _processed_count,
                 _failed_count, raised_by, total_time, throughput>>
  /\ UNCHANGED qvars
  /\ UNCHANGED svars
  /\ UNCHANGED ovars

\* ------------------------------------------------------------ process_stream
\* process_stream hands `window` to process_batch.
flush(w, last) ==
  /\ products' = w
  /\ flushes' = Append(flushes, w)
  /\ yielded' = Append(yielded, <<>>)
  /\ stream_pc' = IF last THEN "last_flush" ELSE "flush"

\* Mutation: the window is handed over one item late.
window_full_late(w) == Len(w) > batch_size

\* `if len(window) >= window_size`, window_size being config.batch_size.
window_full(w) == Len(w) >= batch_size

\* `async for item in item_generator`: the next item goes into the window,
\* and a window of window_size items is handed to process_batch.
StreamRead ==
  /\ stream_pc = "reading"
  /\ consumed < source
  /\ consumed' = consumed + 1
  /\ window' = Append(window, consumed + 1)
  /\ IF window_full(window')
     THEN flush(window', FALSE)
     ELSE UNCHANGED <<products, flushes, yielded, stream_pc>>
  /\ UNCHANGED <<pc, batch_size, retry_failed, enable_gpu,
                 max_concurrent_batches, backpressure_threshold, batches,
                 chunk_tasks, batch_results, semaphore, _processing_semaphore,
                 pool_open, successful, failed, retry_results,
                 _processed_count, _failed_count, raised_by, total_time,
                 throughput, source>>
  /\ UNCHANGED qvars
  /\ UNCHANGED ovars

\* The source is exhausted: a window that is not empty is handed to
\* process_batch, else the generator ends.
StreamEnd ==
  /\ stream_pc = "reading"
  /\ consumed = source
  /\ IF window # <<>>
     THEN flush(window, TRUE)
     ELSE /\ stream_pc' = "done"
          /\ UNCHANGED <<products, flushes, yielded>>
  /\ UNCHANGED <<pc, batch_size, retry_failed, enable_gpu,
                 max_concurrent_batches, backpressure_threshold, batches,
                 chunk_tasks, batch_results, semaphore, _processing_semaphore,
                 pool_open, successful, failed, retry_results,
                 _processed_count, _failed_count, raised_by, total_time,
                 throughput, source, consumed, window>>
  /\ UNCHANGED qvars
  /\ UNCHANGED ovars

\* Mutation: the loop over the successes ends before it has yielded any.
for_exhausted_at_once(done, results_list) == TRUE

\* `for result in batch_result.successful`: the loop has yielded `done`
\* results and has no more to yield.
for_exhausted(done, results_list) == done >= Len(results_list)

\* The results process_stream has yielded from the window it is at.
yielded_now == yielded[Len(yielded)]

\* process_batch has returned: `yield result` hands the next successful
\* result to the consumer, and the generator is suspended until the consumer
\* asks for the next one.
StreamYield ==
  /\ stream_pc \in {"flush", "last_flush"}
  /\ pc = "returned"
  /\ ~for_exhausted(Len(yielded_now), successful)
  /\ yielded' = [yielded EXCEPT ![Len(yielded)] =
                   Append(@, successful[Len(yielded_now) + 1])]
  /\ UNCHANGED <<stream_pc, source, consumed, window, flushes>>
  /\ UNCHANGED bvars
  /\ UNCHANGED qvars
  /\ UNCHANGED ovars

\* The loop over the successes is over: after a full window the window is
\* cleared and reading goes on; after the last window the generator ends.
\* The locals of the finished process_batch call are gone.
StreamWindowDone ==
  /\ stream_pc \in {"flush", "last_flush"}
  /\ pc = "returned"
  /\ for_exhausted(Len(yielded_now), successful)
  /\ stream_pc' = IF stream_pc = "flush" THEN "reading" ELSE "done"
  /\ window' = IF stream_pc = "flush" THEN <<>> ELSE window
  /\ pc' = "idle"
  /\ batches' = <<>>
  /\ chunk_tasks' = <<>>
  /\ batch_results' = <<>>
  /\ successful' = <<>>
  /\ failed' = <<>>
  /\ retry_results' = <<>>
  /\ total_time' = 0
  /\ throughput' = Fraction(0, 1)
  /\ UNCHANGED <<products, batch_size, retry_failed, enable_gpu,
                 max_concurrent_batches, backpressure_threshold, semaphore,
                 _processing_semaphore, pool_open, _processed_count,
                 _failed_count, raised_by, source, consumed, flushes, yielded>>
  /\ UNCHANGED qvars
  /\ UNCHANGED ovars

\* process_batch has raised: the exception leaves the generator.
StreamRaises ==
  /\ stream_pc \in {"flush", "last_flush"}
  /\ pc = "raised"
  /\ stream_pc' = "raised"
  /\ UNCHANGED <<source, consumed, window, flushes, yielded>>
  /\ UNCHANGED bvars
  /\ UNCHANGED qvars
  /\ UNCHANGED ovars

\* ------------------------------------------------- MultiPlatformPublisher
\* self.platforms after register_platform("ebay", ...) and
\* register_platform("shop", ...), in insertion order.
registered_platforms == <<"ebay", "shop">>

\* `platforms=None`: publish on every registered platform.
NoPlatforms == <<"None">>

\* What a caller passes as `platforms`.
PlatformRequests ==
  {<<>>} \cup {<<a>> : a \in Marketplaces}
         \cup {<<a, b>> : a, b \in Marketplaces}
         \cup {NoPlatforms}

\* What a platform publisher's publish does on its first, second, ... call
\* (the last entry stands for every later call): it returns a PUBLISHED or a
\* FAILED result, or raises.
SideEffects ==
  { <<"published">>, <<"failed">>, <<"raise">>, <<"raise", "published">> }

\* The attributes of a RetryManager object: its three static methods.
RetryManagerMethods == {"standard_retry", "api_retry", "database_retry"}

\* Whether `self.retry_manager.<name>` is an attribute; if it is not, the
\* expression raises AttributeError.
has_method(name) == name \in RetryManagerMethods

is_registered(platform) ==
  \E n \in 1..Len(registered_platforms) : registered_platforms[n] = platform

\* The platform the for loop of publish is at.
platform_now == platforms[platform_at]

\* How often publish has been called on a platform's publisher.
call_count(platform) ==
  Cardinality({n \in 1..Len(invoked) :
                 /\ invoked[n].platform = platform
                 /\ invoked[n].method = "publish"})

\* The outcome of the next `publisher.publish(listing_data)` on a platform.
next_outcome(platform) ==
  side_effect[Min(call_count(platform) + 1, Len(side_effect))]

Invocation(platform, method) == [platform |-> platform, method |-> method]

\* Mutation: a platform that is not registered is passed over in silence.
not_registered_skipped(platform) == <<>>

\* What publish appends for a platform that is not registered.
not_registered_result(platform) ==
  << PublishResult(platform, "failed", "Platform not registered") >>

\* publish is entered: `platforms = list(self.platforms.keys())` when none
\* were given, `results = []`.
publish_start ==
  /\ mp_pc = "called"
  /\ mp_pc' = "loop"
  /\ platforms' = IF platforms = NoPlatforms THEN registered_platforms
                  ELSE platforms
  /\ platform_at' = 1
  /\ publish_results' = <<>>
  /\ UNCHANGED <<listing_data, with_retry, side_effect, invoked>>
  /\ UNCHANGED <<qvars, bvars, svars, dvars, batch_calls, pq_items, pq,
               pq_popped>>

\* `if platform not in self.platforms`: a FAILED result, and `continue`.
PlatformNotRegistered ==
  /\ mp_pc = "loop"
  /\ platform_at <= Len(platforms)
  /\ ~is_registered(platform_now)
  /\ publish_results' = publish_results \o not_registered_result(platform_now)
  /\ platform_at' = platform_at + 1
  /\ UNCHANGED <<mp_pc, listing_data, platforms, with_retry, side_effect,
                 invoked>>
  /\ UNCHANGED <<qvars, bvars, svars, dvars, batch_calls, pq_items, pq,
               pq_popped>>

\* `await publisher.validate_listing(listing_data)` is false: a FAILED result.
PlatformInvalid ==
  /\ mp_pc = "loop"
  /\ platform_at <= Len(platforms)
  /\ is_registered(platform_now)
  /\ ~validate_listing(listing_data)
  /\ invoked' = Append(invoked, Invocation(platform_now, "validate_listing"))
  /\ publish_results' =
       Append(publish_results,
              PublishResult(platform_now, "failed", "Validation failed"))
  /\ platform_at' = platform_at + 1
  /\ UNCHANGED <<mp_pc, listing_data, platforms, with_retry, side_effect>>
  /\ UNCHANGED <<qvars, bvars, svars, dvars, batch_calls, pq_items, pq,
               pq_popped>>

\* retry_failed is false: `result = await publisher.publish(listing_data)`.
\* What it returns is appended; what it raises is caught by
\* `except Exception as e` and becomes a FAILED result with str(e).
PlatformPublish ==
  /\ mp_pc = "loop"
  /\ platform_at <= Len(platforms)
  /\ is_registered(platform_now)
  /\ validate_listing(listing_data)
  /\ ~with_retry
  /\ invoked' = invoked \o << Invocation(platform_now, "validate_listing"),
                              Invocation(platform_now, "publish") >>
  /\ publish_results' =
       Append(publish_results,
              IF next_outcome(platform_now) = "raise"
              THEN PublishResult(platform_now, "failed", "str(e)")
              ELSE PublishResult(platform_now, next_outcome(platform_now),
                                 IF next_outcome(platform_now) = "failed"
                                 THEN "LongMessage" ELSE ""))
  /\ platform_at' = platform_at + 1
  /\ UNCHANGED <<mp_pc, listing_data, platforms, with_retry, side_effect>>
  /\ UNCHANGED <<qvars, bvars, svars, dvars, batch_calls, pq_items, pq,
               pq_popped>>

\* retry_failed is true: `self.retry_manager.execute_with_retry(
\* publisher.publish, listing_data)`.  The attribute is looked up before
\* anything is called; RetryManager has none of that name, the AttributeError
\* is caught by `except Exception as e` and becomes a FAILED result.
PlatformRetry ==
  /\ mp_pc = "loop"
  /\ platform_at <= Len(platforms)
  /\ is_registered(platform_now)
  /\ validate_listing(listing_data)
  /\ with_retry
  /\ ~has_method("execute_with_retry")
  /\ invoked' = Append(invoked, Invocation(platform_now, "validate_listing"))
  /\ publish_results' =
       Append(publish_results,
              PublishResult(platform_now, "failed", "AttributeError"))
  /\ platform_at' = platform_at + 1
  /\ UNCHANGED <<mp_pc, listing_data, platforms, with_retry, side_effect>>
  /\ UNCHANGED <<qvars, bvars, svars, dvars, batch_calls, pq_items, pq,
               pq_popped>>

\* The for loop is over: `return results`.
publish_return ==
  /\ mp_pc = "loop"
  /\ platform_at > Len(platforms)
  /\ mp_pc' = "returned"
  /\ UNCHANGED <<listing_data, platforms, with_retry, side_effect,
                 platform_at, publish_results, invoked>>
  /\ UNCHANGED <<qvars, bvars, svars, dvars, batch_calls, pq_items, pq,
               pq_popped>>

\* ------------------------------------------------------------ DIContainer
\* An instance is named by the number of the factory call that made it;
\* NoInstance is the None that register stores for a singleton.
NoInstance == 0

has_factory(name) == \E n \in 1..Len(_factories) : _factories[n].name = name

is_singleton(name) == \E n \in 1..Len(_singletons) : _singletons[n].name = name

\* self._singletons[name]
singleton_of(name) ==
  _singletons[CHOOSE n \in 1..Len(_singletons) : _singletons[n].name = name]
    .instance

\* hasattr(service, 'start') and hasattr(service, 'stop') of what the factory
\* registered under the name makes.
has_lifecycle(name) ==
  _factories[CHOOSE n \in 1..Len(_factories) : _factories[n].name = name]
    .lifecycle

\* Mutation: the stored instance is never taken for one.
cached_never(instance) == FALSE

\* `self._singletons[name] is not None`
cached(instance) == instance # NoInstance

\* register(name, factory, singleton): the factory is stored, and None for a
\* singleton.  Services are registered before the container is used, each
\* name once.
register(name, singleton, lifecycle) ==
  /\ di_calls = 0
  /\ batch_calls = [c \in CallIds |-> NoCall]
  /\ pq_items = [i \in 1..MaxPushed |-> [priority |-> NORMAL]]
  /\ pq = <<>>
  /\ pq_popped = <<>>
  /\ ~has_factory(name)
  /\ _factories' = Append(_factories, [name |-> name, lifecycle |-> lifecycle])
  /\ _singletons' = IF singleton
                    THEN Append(_singletons,
                                [name |-> name, instance |-> NoInstance])
                    ELSE _singletons
  /\ UNCHANGED <<_is_started, factory_calls, resolved, lifecycle_calls,
                 di_calls>>
  /\ UNCHANGED <<qvars, bvars, svars, mvars, batch_calls, pq_items, pq,
               pq_popped>>

\* resolve(name) of a singleton that has its instance: it is returned.
\* Otherwise the factory is invoked, and its product is stored when the name
\* is a singleton's.
resolve(name) ==
  /\ di_calls < MaxDICalls
  /\ has_factory(name)
  /\ di_calls' = di_calls + 1
  /\ lifecycle_calls' = <<>>
  /\ IF is_singleton(name) /\ cached(singleton_of(name))
     THEN /\ resolved' = [resolved EXCEPT ![name] =
                            Append(@, singleton_of(name))]
          /\ UNCHANGED <<_singletons, factory_calls>>
     ELSE /\ factory_calls' = [factory_calls EXCEPT ![name] = @ + 1]
          /\ resolved' = [resolved EXCEPT ![name] =
                            Append(@, factory_calls'[name])]
          /\ _singletons' =
               [n \in 1..Len(_singletons) |->
                  IF _singletons[n].name = name
                  THEN [name |-> name, instance |-> factory_calls'[name]]
                  ELSE _singletons[n]]
  /\ UNCHANGED <<_factories, _is_started>>
  /\ UNCHANGED <<qvars, bvars, svars, mvars, batch_calls, pq_items, pq,
               pq_popped>>

\* resolve(name) of a name without a factory raises ValueError.
resolve_unknown(name) ==
  /\ di_calls < MaxDICalls
  /\ _factories # <<>>
  /\ ~has_factory(name)
  /\ di_calls' = di_calls + 1
  /\ lifecycle_calls' = <<>>
  /\ UNCHANGED <<_factories, _singletons, _is_started, factory_calls,
                 resolved>>
  /\ UNCHANGED <<qvars, bvars, svars, mvars, batch_calls, pq_items, pq,
               pq_popped>>

LifecycleCall(name, method) == [service |-> name, method |-> method]

\* The calls of `method` on the services of the entries `entries` that have
\* the method, in the order of the entries.
RECURSIVE lifecycle_of(_, _)
lifecycle_of(entries, method) ==
  IF entries = <<>> THEN <<>>
  ELSE (IF Head(entries).instance # NoInstance
           /\ has_lifecycle(Head(entries).name)
        THEN << LifecycleCall(Head(entries).name, method) >>
        ELSE <<>>) \o lifecycle_of(Tail(entries), method)

\* start(): nothing when started.  Else every singleton without an instance
\* is resolved, then start() is awaited on each service that has one, in
\* the order of _singletons; `failing` is the position in that sequence of
\* calls of the one that raises (0: none does).  An exception leaves start()
\* before `_is_started = True`.
start(failing) ==
  /\ di_calls < MaxDICalls
  /\ _factories # <<>>
  /\ di_calls' = di_calls + 1
  /\ IF _is_started
     THEN /\ failing = 0
          /\ lifecycle_calls' = <<>>
          /\ UNCHANGED <<_singletons, _is_started, factory_calls, resolved>>
     ELSE LET made(n) == ~cached(_singletons[n].instance)
              names == {_singletons[n].name : n \in 1..Len(_singletons)}
              new == {_singletons[n].name :
                        n \in {k \in 1..Len(_singletons) : made(k)}}
              all == [n \in 1..Len(_singletons) |->
                        IF made(n)
                        THEN [name |-> _singletons[n].name,
                              instance |->
                                factory_calls[_singletons[n].name] + 1]
                        ELSE _singletons[n]]
              calls == lifecycle_of(all, "start")
          IN /\ failing <= Len(calls)
             /\ _singletons' = all
             /\ factory_calls' = [n \in ServiceNames |->
                                    IF n \in new THEN factory_calls[n] + 1
                                    ELSE factory_calls[n]]
             /\ resolved' = [n \in ServiceNames |->
                               IF n \in new
                               THEN Append(resolved[n], factory_calls[n] + 1)
                               ELSE resolved[n]]
             /\ lifecycle_calls' = IF failing = 0 THEN calls
                                   ELSE SubSeq(calls, 1, failing)
             /\ _is_started' = (failing = 0)
  /\ UNCHANGED _factories
  /\ UNCHANGED <<qvars, bvars, svars, mvars, batch_calls, pq_items, pq,
               pq_popped>>

Reverse(s) == [n \in 1..Len(s) |-> s[Len(s) + 1 - n]]

\* Mutation: the services are stopped in the order they were registered in.
stop_order_forward(entries) == entries

\* reversed(list(self._singletons.items()))
stop_order(entries) == Reverse(entries)

\* stop(): nothing when not started.  Else stop() is awaited on each service
\* that has one, in reverse order; what a stop() raises is logged and
\* dropped.
stop ==
  /\ di_calls < MaxDICalls
  /\ _factories # <<>>
  /\ di_calls' = di_calls + 1
  /\ IF ~_is_started
     THEN /\ lifecycle_calls' = <<>>
          /\ UNCHANGED _is_started
     ELSE /\ lifecycle_calls' = lifecycle_of(stop_order(_singletons), "stop")
          /\ _is_started' = FALSE
  /\ UNCHANGED <<_factories, _singletons, factory_calls, resolved>>
  /\ UNCHANGED <<qvars, bvars, svars, mvars, batch_calls, pq_items, pq,
               pq_popped>>

\* ------------------------------------------------------------ specifications
BNext ==
  \/ ProcessBatchStart
  \/ \E k \in 1..Len(chunk_tasks) : ChunkEnter(k)
  \/ \E k \in 1..Len(chunk_tasks) : ChunkAcquires(k)
  \/ \E k \in 1..Len(chunk_tasks) :
       \E n \in 1..Len(chunk_tasks[k].futures), outcome \in FutureOutcomes :
         WorkerDone(k, n, outcome)
  \/ \E k \in 1..Len(chunk_tasks) : Collect(k)
  \/ \E k \in 1..Len(chunk_tasks) : WaitTimesOut(k)
  \/ \E k \in 1..Len(chunk_tasks) :
       \E m \in GpuOkCounts(batches[k]) : GpuReturns(k, m)
  \/ \E k \in 1..Len(chunk_tasks) : GpuFails(k)
  \/ Aggregate
  \/ \E ok \in BOOLEAN : RetryItem(ok)
  \/ \E elapsed \in ElapsedTimes : Finish(elapsed)

PoolNext == BNext \/ shutdown

StreamNext ==
  \/ BNext
  \/ StreamRead
  \/ StreamEnd
  \/ StreamYield
  \/ StreamWindowDone
  \/ StreamRaises

\* The publishing queue after construction (no batch call is made).
Init ==
  /\ clock = 0
  /\ items = [i \in ItemIds |-> NoItem]
  /\ nextId = 1
  /\ queue = <<>>
  /\ active_tasks = <<>>
  /\ results = <<>>
  /\ _running = FALSE
  /\ _publishers = RegisteredPublishers
  /\ loops = [l \in LoopIds |-> NoLoop]
  /\ dispatched = <<>>
  /\ pc = "idle"
  /\ batches = <<>>
  /\ chunk_tasks = <<>>
  /\ batch_results = <<>>
  /\ semaphore = 0
  /\ pool_open = TRUE
  /\ successful = <<>>
  /\ failed = <<>>
  /\ retry_results = <<>>
  /\ _processed_count = 0
  /\ _failed_count = 0
  /\ raised_by = ""
  /\ total_time = 0
  /\ throughput = Fraction(0, 1)
  /\ products = <<>>
  /\ batch_size = 1
  /\ retry_failed = FALSE
  /\ enable_gpu = FALSE
  /\ max_concurrent_batches = 1
  /\ backpressure_threshold = 1
  /\ _processing_semaphore = 1
  /\ stream_pc = "off"
  /\ source = 0
  /\ consumed = 0
  /\ window = <<>>
  /\ flushes = <<>>
  /\ yielded = <<>>
  /\ mp_pc = "off"
  /\ listing_data = NoListing
  /\ platforms = <<>>
  /\ with_retry = FALSE
  /\ side_effect = <<>>
  /\ platform_at = 0
  /\ publish_results = <<>>
  /\ invoked = <<>>
  /\ _factories = <<>>
  /\ _singletons = <<>>
  /\ _is_started = FALSE
  /\ factory_calls = [n \in ServiceNames |-> 0]
  /\ resolved = [n \in ServiceNames |-> <<>>]
  /\ lifecycle_calls = <<>>
  /\ di_calls = 0
  /\ batch_calls = [c \in CallIds |-> NoCall]
  /\ pq_items = [i \in 1..MaxPushed |-> [priority |-> NORMAL]]
  /\ pq = <<>>
  /\ pq_popped = <<>>

Spec == Init /\ [][Next]_vars

\* A BatchProcessor and the arguments of one process_batch call (the queue
\* stays as constructed): small chunks, which take the CPU path, or a chunk
\* large enough for the GPU path.
BatchInit ==
  /\ clock = 0
  /\ items = [i \in ItemIds |-> NoItem]
  /\ nextId = 1
  /\ queue = <<>>
  /\ active_tasks = <<>>
  /\ results = <<>>
  /\ _running = FALSE
  /\ _publishers = RegisteredPublishers
  /\ loops = [l \in LoopIds |-> NoLoop]
  /\ dispatched = <<>>
  /\ pc = "idle"
  /\ batches = <<>>
  /\ chunk_tasks = <<>>
  /\ batch_results = <<>>
  /\ semaphore = 0
  /\ pool_open = TRUE
  /\ successful = <<>>
  /\ failed = <<>>
  /\ retry_results = <<>>
  /\ _processed_count = 0
  /\ _failed_count = 0
  /\ raised_by = ""
  /\ total_time = 0
  /\ throughput = Fraction(0, 1)
  /\ \/ /\ batch_size \in 1..MaxBatchSize
        /\ retry_failed \in BOOLEAN
        /\ enable_gpu \in BOOLEAN
        /\ \E n \in 0..MaxProducts : products = [i \in 1..n |-> i]
     \/ /\ batch_size = LargeChunk
        /\ retry_failed = FALSE
        /\ enable_gpu = TRUE
        /\ \E n \in {LargeChunk, LargeChunk + 1} :
             products = [i \in 1..n |-> i]
  /\ max_concurrent_batches \in 1..MaxBatches
  /\ backpressure_threshold \in 1..MaxThreshold
  /\ _processing_semaphore = backpressure_threshold
  /\ stream_pc = "off"
  /\ source = 0
  /\ consumed = 0
  /\ window = <<>>
  /\ flushes = <<>>
  /\ yielded = <<>>
  /\ mp_pc = "off"
  /\ listing_data = NoListing
  /\ platforms = <<>>
  /\ with_retry = FALSE
  /\ side_effect = <<>>
  /\ platform_at = 0
  /\ publish_results = <<>>
  /\ invoked = <<>>
  /\ _factories = <<>>
  /\ _singletons = <<>>
  /\ _is_started = FALSE
  /\ factory_calls = [n \in ServiceNames |-> 0]
  /\ resolved = [n \in ServiceNames |-> <<>>]
  /\ lifecycle_calls = <<>>
  /\ di_calls = 0
  /\ batch_calls = [c \in CallIds |-> NoCall]
  /\ pq_items = [i \in 1..MaxPushed |-> [priority |-> NORMAL]]
  /\ pq = <<>>
  /\ pq_popped = <<>>

BatchSpec == BatchInit /\ [][BNext]_vars

\* The same, where shutdown() may be called.
PoolSpec == BatchInit /\ [][PoolNext]_vars

\* A BatchProcessor and a process_stream call over a finite source.
StreamInit ==
  /\ clock = 0
  /\ items = [i \in ItemIds |-> NoItem]
  /\ nextId = 1
  /\ queue = <<>>
  /\ active_tasks = <<>>
  /\ results = <<>>
  /\ _running = FALSE
  /\ _publishers = RegisteredPublishers
  /\ loops = [l \in LoopIds |-> NoLoop]
  /\ dispatched = <<>>
  /\ pc = "idle"
  /\ batches = <<>>
  /\ chunk_tasks = <<>>
  /\ batch_results = <<>>
  /\ semaphore = 0
  /\ pool_open = TRUE
  /\ successful = <<>>
  /\ failed = <<>>
  /\ retry_results = <<>>
  /\ _processed_count = 0
  /\ _failed_count = 0
  /\ raised_by = ""
  /\ total_time = 0
  /\ throughput = Fraction(0, 1)
  /\ \/ /\ batch_size \in 1..MaxBatchSize
        /\ retry_failed \in BOOLEAN
        /\ enable_gpu \in BOOLEAN
        /\ source \in 0..MaxProducts
     \/ /\ batch_size = LargeChunk
        /\ retry_failed = FALSE
        /\ enable_gpu = TRUE
        /\ source \in {LargeChunk, LargeChunk + 1}
  /\ max_concurrent_batches \in 1..MaxBatches
  /\ backpressure_threshold \in 1..MaxThreshold
  /\ _processing_semaphore = backpressure_threshold
  /\ products = <<>>
  /\ stream_pc = "reading"
  /\ consumed = 0
  /\ window = <<>>
  /\ flushes = <<>>
  /\ yielded = <<>>
  /\ mp_pc = "off"
  /\ listing_data = NoListing
  /\ platforms = <<>>
  /\ with_retry = FALSE
  /\ side_effect = <<>>
  /\ platform_at = 0
  /\ publish_results = <<>>
  /\ invoked = <<>>
  /\ _factories = <<>>
  /\ _singletons = <<>>
  /\ _is_started = FALSE
  /\ factory_calls = [n \in ServiceNames |-> 0]
  /\ resolved = [n \in ServiceNames |-> <<>>]
  /\ lifecycle_calls = <<>>
  /\ di_calls = 0
  /\ batch_calls = [c \in CallIds |-> NoCall]
  /\ pq_items = [i \in 1..MaxPushed |-> [priority |-> NORMAL]]
  /\ pq = <<>>
  /\ pq_popped = <<>>

StreamSpec == StreamInit /\ [][StreamNext]_vars

\* The event loop runs every coroutine that is ready and every callback that
\* is scheduled, every publish call comes back, and time passes.
LoopStep(l) == LoopStart(l) \/ LoopWakeOuter(l) \/ LoopWakeInner(l)

PublishEnds(i) ==
  \/ PublishNoPublisher(i)
  \/ \E result \in publish_returns(items[i]) : PublishReturns(i, result)
  \/ PublishRaises(i)

Fairness ==
  /\ \A l \in LoopIds : WF_vars(LoopStep(l))
  /\ \A i \in ItemIds : WF_vars(PublishEnds(i))
  /\ \A i \in ItemIds : WF_vars(TaskDone(i))
  /\ WF_vars(Tick)

FairSpec == Init /\ [][Next]_vars /\ Fairness

\* The event loop runs every task that can go on, every worker ends its
\* item, and every call of the GPU optimizer comes back.
WorkerEnds(k, n) == \E outcome \in FutureOutcomes : WorkerDone(k, n, outcome)

GpuEnds(k) ==
  \/ \E m \in GpuOkCounts(batches[k]) : GpuReturns(k, m)
  \/ GpuFails(k)

BatchFairness ==
  /\ WF_vars(ProcessBatchStart)
  /\ \A k \in 1..MaxProducts :
       /\ WF_vars(ChunkEnter(k))
       /\ WF_vars(ChunkAcquires(k))
       /\ WF_vars(Collect(k))
       /\ WF_vars(k \in 1..Len(chunk_tasks) /\ GpuEnds(k))
       /\ \A n \in 1..MaxBatchSize : WF_vars(WorkerEnds(k, n))
  /\ WF_vars(Aggregate)
  /\ WF_vars(\E ok \in BOOLEAN : RetryItem(ok))
  /\ WF_vars(\E elapsed \in ElapsedTimes : Finish(elapsed))

FairBatchSpec == BatchInit /\ [][BNext]_vars /\ BatchFairness

\* One MultiPlatformPublisher.publish call, on a publisher with the
\* platforms of registered_platforms.
PublisherInit ==
  /\ clock = 0
  /\ items = [i \in ItemIds |-> NoItem]
  /\ nextId = 1
  /\ queue = <<>>
  /\ active_tasks = <<>>
  /\ results = <<>>
  /\ _running = FALSE
  /\ _publishers = RegisteredPublishers
  /\ loops = [l \in LoopIds |-> NoLoop]
  /\ dispatched = <<>>
  /\ pc = "idle"
  /\ batches = <<>>
  /\ chunk_tasks = <<>>
  /\ batch_results = <<>>
  /\ semaphore = 0
  /\ pool_open = TRUE
  /\ successful = <<>>
  /\ failed = <<>>
  /\ retry_results = <<>>
  /\ _processed_count = 0
  /\ _failed_count = 0
  /\ raised_by = ""
  /\ total_time = 0
  /\ throughput = Fraction(0, 1)
  /\ products = <<>>
  /\ batch_size = 1
  /\ retry_failed = FALSE
  /\ enable_gpu = FALSE
  /\ max_concurrent_batches = 1
  /\ backpressure_threshold = 1
  /\ _processing_semaphore = 1
  /\ stream_pc = "off"
  /\ source = 0
  /\ consumed = 0
  /\ window = <<>>
  /\ flushes = <<>>
  /\ yielded = <<>>
  /\ mp_pc = "called"
  /\ listing_data \in Listings
  /\ platforms \in PlatformRequests
  /\ with_retry \in BOOLEAN
  /\ side_effect \in SideEffects
  /\ platform_at = 0
  /\ publish_results = <<>>
  /\ invoked = <<>>
  /\ _factories = <<>>
  /\ _singletons = <<>>
  /\ _is_started = FALSE
  /\ factory_calls = [n \in ServiceNames |-> 0]
  /\ resolved = [n \in ServiceNames |-> <<>>]
  /\ lifecycle_calls = <<>>
  /\ di_calls = 0
  /\ batch_calls = [c \in CallIds |-> NoCall]
  /\ pq_items = [i \in 1..MaxPushed |-> [priority |-> NORMAL]]
  /\ pq = <<>>
  /\ pq_popped = <<>>

PublisherNext ==
  \/ publish_start
  \/ PlatformNotRegistered
  \/ PlatformInvalid
  \/ PlatformPublish
  \/ PlatformRetry
  \/ publish_return

PublisherSpec == PublisherInit /\ [][PublisherNext]_vars

\* A DIContainer after construction.
ContainerInit ==
  /\ clock = 0
  /\ items = [i \in ItemIds |-> NoItem]
  /\ nextId = 1
  /\ queue = <<>>
  /\ active_tasks = <<>>
  /\ results = <<>>
  /\ _running = FALSE
  /\ _publishers = RegisteredPublishers
  /\ loops = [l \in LoopIds |-> NoLoop]
  /\ dispatched = <<>>
  /\ pc = "idle"
  /\ batches = <<>>
  /\ chunk_tasks = <<>>
  /\ batch_results = <<>>
  /\ semaphore = 0
  /\ pool_open = TRUE
  /\ successful = <<>>
  /\ failed = <<>>
  /\ retry_results = <<>>
  /\ _processed_count = 0
  /\ _failed_count = 0
  /\ raised_by = ""
  /\ total_time = 0
  /\ throughput = Fraction(0, 1)
  /\ products = <<>>
  /\ batch_size = 1
  /\ retry_failed = FALSE
  /\ enable_gpu = FALSE
  /\ max_concurrent_batches = 1
  /\ backpressure_threshold = 1
  /\ _processing_semaphore = 1
  /\ stream_pc = "off"
  /\ source = 0
  /\ consumed = 0
  /\ window = <<>>
  /\ flushes = <<>>
  /\ yielded = <<>>
  /\ mp_pc = "off"
  /\ listing_data = NoListing
  /\ platforms = <<>>
  /\ with_retry = FALSE
  /\ side_effect = <<>>
  /\ platform_at = 0
  /\ publish_results = <<>>
  /\ invoked = <<>>
  /\ _factories = <<>>
  /\ _singletons = <<>>
  /\ _is_started = FALSE
  /\ factory_calls = [n \in ServiceNames |-> 0]
  /\ resolved = [n \in ServiceNames |-> <<>>]
  /\ lifecycle_calls = <<>>
  /\ di_calls = 0
  /\ batch_calls = [c \in CallIds |-> NoCall]
  /\ pq_items = [i \in 1..MaxPushed |-> [priority |-> NORMAL]]
  /\ pq = <<>>
  /\ pq_popped = <<>>

ContainerNext ==
  \/ \E name \in ServiceNames, singleton \in BOOLEAN, lifecycle \in BOOLEAN :
       register(name, singleton, lifecycle)
  \/ \E name \in ServiceNames : resolve(name)
  \/ \E name \in ServiceNames : resolve_unknown(name)
  \/ \E failing \in 0..Cardinality(ServiceNames) : start(failing)
  \/ stop

ContainerSpec == ContainerInit /\ [][ContainerNext]_vars

\* ------------------------------------------- overlapping process_batch calls
\* Two process_batch calls made on one BatchProcessor, each cut at its awaits.
\* What a call's chunk tasks do between its start and the return of its
\* gather touches no field of the processor that the other call reads for
\* its counts: the gather is one step here, drawn from its outcomes.

\* process_batch up to its first await: the counters of the processor are
\* reset, the chunk tasks are made and the call waits for the gather.
CallStart(c, ok, bad) ==
  /\ batch_calls[c].pc = "idle"
  /\ pc = "idle"
  /\ ok + bad >= 1
  /\ batch_calls' = [batch_calls EXCEPT ![c] = [@ EXCEPT !.pc = "gather", !.ok = ok,
                                               !.bad = bad]]
  /\ _processed_count' = 0
  /\ _failed_count' = 0
  /\ UNCHANGED <<pc, products, batch_size, retry_failed, enable_gpu,
                 max_concurrent_batches, backpressure_threshold, batches,
                 chunk_tasks, batch_results, semaphore, _processing_semaphore,
                 pool_open, successful, failed, retry_results, raised_by,
                 total_time, throughput>>
  /\ UNCHANGED <<qvars, svars, mvars, dvars, pq_items, pq, pq_popped>>

\* The gather returns: the call appends each result to its own successful or
\* failed list and adds one to the processor's counter for each; with no
\* retry pass it computes the throughput from the counter in the same step.
CallAggregates(c) ==
  /\ batch_calls[c].pc = "gather"
  /\ _processed_count' = _processed_count + batch_calls[c].ok
  /\ _failed_count' = _failed_count + batch_calls[c].bad
  /\ batch_calls' = [batch_calls EXCEPT ![c] =
       IF retry_pass(retry_failed, [k \in 1..batch_calls[c].bad |-> k])
       THEN [@ EXCEPT !.successful = batch_calls[c].ok,
                      !.failed = batch_calls[c].bad,
                      !.pc = "retry"]
       ELSE [@ EXCEPT !.successful = batch_calls[c].ok,
                      !.failed = batch_calls[c].bad,
                      !.pc = "gauge",
                      !.used = _processed_count']]
  /\ UNCHANGED <<pc, products, batch_size, retry_failed, enable_gpu,
                 max_concurrent_batches, backpressure_threshold, batches,
                 chunk_tasks, batch_results, semaphore, _processing_semaphore,
                 pool_open, successful, failed, retry_results, raised_by,
                 total_time, throughput>>
  /\ UNCHANGED <<qvars, svars, mvars, dvars, pq_items, pq, pq_popped>>

\* The gather passes on the exception of a chunk task: the call raises.
CallRaises(c) ==
  /\ batch_calls[c].pc = "gather"
  /\ batch_calls' = [batch_calls EXCEPT ![c] = [@ EXCEPT !.pc = "raised"]]
  /\ UNCHANGED <<bvars, qvars, svars, mvars, dvars, pq_items, pq, pq_popped>>

\* The retry pass returns. With a retried item that succeeded, the call
\* appends it to successful and raises in failed.remove, the counters
\* untouched; with none, it computes the throughput from the counter.
CallRetried(c, recovered) ==
  /\ batch_calls[c].pc = "retry"
  /\ recovered \in 0..batch_calls[c].failed
  /\ batch_calls' = [batch_calls EXCEPT ![c] =
       IF recovered > 0
       THEN [@ EXCEPT !.pc = "raised", !.successful = @ + 1]
       ELSE [@ EXCEPT !.pc = "gauge", !.used = _processed_count]]
  /\ UNCHANGED <<bvars, qvars, svars, mvars, dvars, pq_items, pq, pq_popped>>

\* metrics.gauge returns; the call passes _processed_count to
\* metrics.increment.
CallReportsProcessed(c) ==
  /\ batch_calls[c].pc = "gauge"
  /\ batch_calls' = [batch_calls EXCEPT ![c] = [@ EXCEPT !.pc = "increment",
                                               !.processed = _processed_count]]
  /\ UNCHANGED <<bvars, qvars, svars, mvars, dvars, pq_items, pq, pq_popped>>

\* The first metrics.increment returns; the call passes _failed_count to
\* the second.
CallReportsFailed(c) ==
  /\ batch_calls[c].pc = "increment"
  /\ batch_calls' = [batch_calls EXCEPT ![c] = [@ EXCEPT !.pc = "last_increment",
                                               !.reported_failed = _failed_count]]
  /\ UNCHANGED <<bvars, qvars, svars, mvars, dvars, pq_items, pq, pq_popped>>

\* The second metrics.increment returns; the call returns its BatchResult.
CallReturns(c) ==
  /\ batch_calls[c].pc = "last_increment"
  /\ batch_calls' = [batch_calls EXCEPT ![c] = [@ EXCEPT !.pc = "returned"]]
  /\ UNCHANGED <<bvars, qvars, svars, mvars, dvars, pq_items, pq, pq_popped>>

OverlapInit ==
  /\ clock = 0
  /\ items = [i \in ItemIds |-> NoItem]
  /\ nextId = 1
  /\ queue = <<>>
  /\ active_tasks = <<>>
  /\ results = <<>>
  /\ _running = FALSE
  /\ _publishers = RegisteredPublishers
  /\ loops = [l \in LoopIds |-> NoLoop]
  /\ dispatched = <<>>
  /\ pc = "idle"
  /\ batches = <<>>
  /\ chunk_tasks = <<>>
  /\ batch_results = <<>>
  /\ semaphore = 0
  /\ pool_open = TRUE
  /\ successful = <<>>
  /\ failed = <<>>
  /\ retry_results = <<>>
  /\ _processed_count = 0
  /\ _failed_count = 0
  /\ raised_by = ""
  /\ total_time = 0
  /\ throughput = Fraction(0, 1)
  /\ products = <<>>
  /\ batch_size = 1
  /\ retry_failed \in BOOLEAN
  /\ enable_gpu = FALSE
  /\ max_concurrent_batches = 1
  /\ backpressure_threshold = 1
  /\ _processing_semaphore = 1
  /\ stream_pc = "off"
  /\ source = 0
  /\ consumed = 0
  /\ window = <<>>
  /\ flushes = <<>>
  /\ yielded = <<>>
  /\ mp_pc = "off"
  /\ listing_data = NoListing
  /\ platforms = <<>>
  /\ with_retry = FALSE
  /\ side_effect = <<>>
  /\ platform_at = 0
  /\ publish_results = <<>>
  /\ invoked = <<>>
  /\ _factories = <<>>
  /\ _singletons = <<>>
  /\ _is_started = FALSE
  /\ factory_calls = [n \in ServiceNames |-> 0]
  /\ resolved = [n \in ServiceNames |-> <<>>]
  /\ lifecycle_calls = <<>>
  /\ di_calls = 0
  /\ batch_calls = [c \in CallIds |-> NoCall]
  /\ pq_items = [i \in 1..MaxPushed |-> [priority |-> NORMAL]]
  /\ pq = <<>>
  /\ pq_popped = <<>>

OverlapNext ==
  \/ \E c \in CallIds : \E ok \in 0..MaxGathered : \E bad \in 0..MaxGathered :
       CallStart(c, ok, bad)
  \/ \E c \in CallIds : CallAggregates(c)
  \/ \E c \in CallIds : CallRaises(c)
  \/ \E c \in CallIds : \E recovered \in 0..MaxGathered : CallRetried(c, recovered)
  \/ \E c \in CallIds : CallReportsProcessed(c)
  \/ \E c \in CallIds : CallReportsFailed(c)
  \/ \E c \in CallIds : CallReturns(c)

OverlapSpec == OverlapInit /\ [][OverlapNext]_vars

\* ------------------------------------------------------- the heap by itself
\* add_to_queue and the dispatch of the processing loop, with every item due
\* and a free slot for each: what is left is the order the heap gives.

\* add_to_queue: the item is pushed on the heap.
push ==
  /\ Len(pq) + Len(pq_popped) < MaxPushed
  /\ pq' = heappush(pq_items, pq, Len(pq) + Len(pq_popped) + 1)
  /\ UNCHANGED <<pq_items, pq_popped>>
  /\ UNCHANGED <<qvars, bvars, svars, mvars, dvars, batch_calls>>

\* The loop pops the head of the heap and hands it to _publish_item.
pop ==
  /\ pq # <<>>
  /\ pq_popped' = Append(pq_popped, [id |-> pq[1], left |-> Tail(pq)])
  /\ pq' = heappop(pq_items, pq)
  /\ UNCHANGED pq_items
  /\ UNCHANGED <<qvars, bvars, svars, mvars, dvars, batch_calls>>

HeapInit ==
  /\ clock = 0
  /\ items = [i \in ItemIds |-> NoItem]
  /\ nextId = 1
  /\ queue = <<>>
  /\ active_tasks = <<>>
  /\ results = <<>>
  /\ _running = FALSE
  /\ _publishers = RegisteredPublishers
  /\ loops = [l \in LoopIds |-> NoLoop]
  /\ dispatched = <<>>
  /\ pc = "idle"
  /\ batches = <<>>
  /\ chunk_tasks = <<>>
  /\ batch_results = <<>>
  /\ semaphore = 0
  /\ pool_open = TRUE
  /\ successful = <<>>
  /\ failed = <<>>
  /\ retry_results = <<>>
  /\ _processed_count = 0
  /\ _failed_count = 0
  /\ raised_by = ""
  /\ total_time = 0
  /\ throughput = Fraction(0, 1)
  /\ products = <<>>
  /\ batch_size = 1
  /\ retry_failed = FALSE
  /\ enable_gpu = FALSE
  /\ max_concurrent_batches = 1
  /\ backpressure_threshold = 1
  /\ _processing_semaphore = 1
  /\ stream_pc = "off"
  /\ source = 0
  /\ consumed = 0
  /\ window = <<>>
  /\ flushes = <<>>
  /\ yielded = <<>>
  /\ mp_pc = "off"
  /\ listing_data = NoListing
  /\ platforms = <<>>
  /\ with_retry = FALSE
  /\ side_effect = <<>>
  /\ platform_at = 0
  /\ publish_results = <<>>
  /\ invoked = <<>>
  /\ _factories = <<>>
  /\ _singletons = <<>>
  /\ _is_started = FALSE
  /\ factory_calls = [n \in ServiceNames |-> 0]
  /\ resolved = [n \in ServiceNames |-> <<>>]
  /\ lifecycle_calls = <<>>
  /\ di_calls = 0
  /\ batch_calls = [c \in CallIds |-> NoCall]
  /\ pq_items \in [1..MaxPushed -> [priority : Priorities]]
  /\ pq = <<>>
  /\ pq_popped = <<>>

HeapNext ==
  \/ push
  \/ pop

HeapSpec == HeapInit /\ [][HeapNext]_vars

\* ------------------------------------------------------------------ claims
Priority(i) == items[i].priority

\* C1: an item handed to _publish_item has the lowest priority value of the
\* queue: none of the items dispatched after it in the same pass, and none of
\* the ready items left in the queue (in particular one added after it), has
\* a strictly lower priority value.
C1_PriorityDispatch ==
  \A a \in 1..Len(dispatched) :
    /\ \A b \in (a + 1)..Len(dispatched) :
         ~(Priority(dispatched[b]) < Priority(dispatched[a]))
    /\ \A k \in 1..Len(queue) :
         is_due(items[queue[k]], clock)
           => ~(Priority(queue[k]) < Priority(dispatched[a]))

\* An URGENT item added after a NORMAL one has been dispatched while the
\* NORMAL one, ready as well, is still queued.
C1_Witness ==
  \E k \in 1..Len(queue) :
    /\ Len(dispatched) > 0
    /\ dispatched[1] > queue[k]
    /\ Priority(dispatched[1]) = URGENT
    /\ Priority(queue[k]) = NORMAL
    /\ is_due(items[queue[k]], clock)

\* C2: every item the processing loop has just dispatched has
\* scheduled_at <= the current time.
C2_NotBeforeSchedule ==
  \A a \in 1..Len(dispatched) : items[dispatched[a]].scheduled_at <= clock

\* An item rescheduled by the retry policy is dispatched (at its due time).
C2_Witness ==
  \E a \in 1..Len(dispatched) :
    /\ items[dispatched[a]].retries >= 1
    /\ items[dispatched[a]].scheduled_at > 0

\* C3: every queued item whose scheduled_at has passed eventually leaves the
\* queue (it is dispatched, or clear_queue drops it).
C3_EventuallyDispatched ==
  \A i \in ItemIds :
    (InQueue(i) /\ items[i].scheduled_at <= clock) ~> ~InQueue(i)

\* C4: retries never exceeds 3, and when publish raises for an item whose
\* retries is 3 the item is not put back into the queue, its counter stays
\* 3 and the task's result is FAILED.
C4_RetryBound ==
  /\ [](\A i \in ItemIds : items[i].retries <= 3)
  /\ [][\A i \in ItemIds :
          (PublishRaises(i) /\ items[i].retries = 3)
            => /\ ~(\E k \in 1..Len(queue') : queue'[k] = i)
               /\ items'[i].retries = 3
               /\ active_tasks'[i].result.status = "failed"]_vars

\* A task has failed for the fourth time: its item has 3 retries, was due
\* when dispatched, and is not queued again.
C4_Witness ==
  \E i \in ItemIds :
    /\ IsDone(i)
    /\ active_tasks[i].result.status = "failed"
    /\ items[i].retries = 3
    /\ items[i].scheduled_at <= clock
    /\ ~InQueue(i)

\* C5: when the eBay client raises while EbayPublisher publishes an item with
\* fewer than 3 retries, the item is put back into the queue with retries
\* incremented and a later scheduled_at.
C5_TransientRetried ==
  [][\A i \in ItemIds :
       (/\ items[i].marketplace = "ebay"
        /\ items[i].retries < 3
        /\ PublishReturns(i, PublishResult("ebay", "failed", "str(e)")))
         => /\ \E k \in 1..Len(queue') : queue'[k] = i
            /\ items'[i].retries = items[i].retries + 1
            /\ items'[i].scheduled_at > clock]_vars

\* C6: an item whose marketplace has no publisher, or whose listing fails
\* validation (publish returns the 'Validation failed' result), is not put
\* back into the queue and keeps its retries; and an item that is neither
\* queued nor in flight is never queued or started again.
C6_TerminalFailures ==
  [][\A i \in ItemIds :
       /\ (\/ PublishNoPublisher(i)
           \/ PublishReturns(i, PublishResult(items[i].marketplace, "failed",
                                              "Validation failed"))
           \/ (/\ IsRunning(i) /\ ~IsRunning(i)'
               /\ \/ ~get_publisher(items[i].marketplace)
                  \/ ~validate_listing(items[i].listing)))
            => /\ ~(\E k \in 1..Len(queue') : queue'[k] = i)
               /\ items'[i] = items[i]
       /\ (i < nextId /\ ~InQueue(i) /\ ~IsRunning(i))
            => /\ ~(\E k \in 1..Len(queue') : queue'[k] = i)
               /\ ~IsRunning(i)']_vars

\* Both terminal failures have happened: one task ended for want of a
\* publisher, an earlier one with the validation result, and neither item is
\* queued.
C6_Witness ==
  \E i, j \in ItemIds :
    /\ IsDone(i) /\ active_tasks[i].result.error = "No publisher registered"
    /\ j \in DOMAIN results /\ results[j].error = "Validation failed"
    /\ j \notin DOMAIN active_tasks
    /\ ~InQueue(i) /\ ~InQueue(j)

\* C7: active_tasks never holds more than max_concurrent entries.
C7_ConcurrencyBound == Cardinality(DOMAIN active_tasks) <= max_concurrent

\* Every slot is taken while a due item waits in the queue.
C7_Witness ==
  /\ Cardinality(DOMAIN active_tasks) = max_concurrent
  /\ \E i \in DOMAIN active_tasks : IsRunning(i)
  /\ queue # <<>>
  /\ is_due(items[queue[1]], clock)
  /\ AliveLoops # {}

\* C8: at most one _process_queue coroutine is alive.
C8_SingleLoop == Cardinality(AliveLoops) <= 1

\* C9: _create_batches cuts the input into consecutive chunks: their
\* concatenation is the input, every chunk but the last has batch_size
\* items, the last has 1 to batch_size, and there are
\* ceil(len(items) / batch_size) of them (none for an empty input).
C9_CreateBatches ==
  pc # "idle" =>
    /\ Flatten(batches) = products
    /\ \A k \in 1..Len(batches) :
         /\ k < Len(batches) => Len(batches[k]) = batch_size
         /\ Len(batches[k]) >= 1 /\ Len(batches[k]) <= batch_size
    /\ Len(batches) * batch_size >= Len(products)
    /\ (Len(batches) - 1) * batch_size < Len(products)

\* Three items cut by two: a full chunk and a shorter last one.
C9_Witness ==
  /\ pc # "idle"
  /\ Len(batches) = 2
  /\ batch_size = 2
  /\ Len(batches[1]) = batch_size
  /\ Len(batches[2]) < batch_size

\* C10: a BatchResult that process_batch returns holds every input item
\* exactly once, in successful or in failed, so that
\* len(successful) + len(failed) = len(items).
C10_EveryItemOnce ==
  pc = "returned" =>
    /\ Len(successful) + Len(failed) = Len(products)
    /\ \A i \in 1..Len(products) :
         Cardinality({n \in 1..Len(successful) : successful[n].item = products[i]})
         + Cardinality({n \in 1..Len(failed) : failed[n].item = products[i]}) = 1

\* A BatchResult returned after the retry pass ran over several chunks'
\* failures.
C10_Witness ==
  /\ pc = "returned"
  /\ Len(batches) >= 2
  /\ retry_failed /\ Len(retry_results) >= 2
  /\ Len(failed) >= 2

\* C11: when the GPU path fails for a chunk, the chunk is run on the CPU path
\* (its items are handed to the worker pool), and a chunk that returns
\* after a GPU failure returns one entry per item, made on the CPU path.
C11_GpuFallback ==
  /\ [][\A k \in 1..Len(chunk_tasks) :
          GpuFails(k) => chunk_tasks'[k].st \in {"acquire", "collect"}]_vars
  /\ [](\A k \in 1..Len(chunk_tasks) :
          (chunk_tasks[k].depth > 0 /\ chunk_tasks[k].st = "returned")
            => /\ Len(chunk_tasks[k].results) = Len(batches[k])
               /\ Len(chunk_tasks[k].futures) = Len(batches[k]))

\* C12: when the retry pass is over and a retry has succeeded, process_batch
\* has not raised, every entry whose retry succeeded is in successful and no
\* longer in failed, and the two counters are the lengths of the two lists.
C12_RetrySuccessMoves ==
  (/\ pc \in {"metrics", "returned", "raised"}
   /\ \E n \in 1..Len(retry_results) : retry_results[n].ok)
    => /\ pc # "raised"
       /\ \A n \in 1..Len(retry_results) :
            retry_results[n].ok
              => /\ \E m \in 1..Len(successful) :
                      successful[m].item = retry_results[n].item
                 /\ \A m \in 1..Len(failed) :
                      failed[m].item # retry_results[n].item
       /\ _processed_count = Len(successful)
       /\ _failed_count = Len(failed)

\* C13: process_batch does not raise because an item timed out, because an
\* item's future raised, or because a retried item succeeded.
C13_NoItemLevelRaise ==
  ~(pc = "raised" /\ raised_by \in {"timeout", "exception", "remove"})

\* C14: when the wait for an item times out, or the item's future raises,
\* _process_single_batch does not raise: it appends one failure entry
\* ('Timeout', or str(e)) for an item of the chunk and goes on.
C14_TimeoutIsAnEntry ==
  [][\A k \in 1..Len(chunk_tasks) :
       (\/ WaitTimesOut(k)
        \/ (/\ Collect(k)
            /\ chunk_tasks[k].futures[chunk_tasks[k].completed[
                  chunk_tasks[k].taken + 1]] = "exception"))
         => /\ chunk_tasks'[k].st # "raised"
            /\ Len(chunk_tasks'[k].results) = Len(chunk_tasks[k].results) + 1
            /\ LET e == chunk_tasks'[k].results[Len(chunk_tasks'[k].results)]
               IN /\ ~e.ok
                  /\ e.error \in {"Timeout", "str(e)"}
                  /\ \E n \in 1..Len(batches[k]) : e.item = batches[k][n]]_vars

\* The items admitted into processing and not yet completed: those a worker
\* is running, and those of the chunks the GPU path is processing.
InFlight ==
  Cardinality({kn \in (1..Len(chunk_tasks)) \X (1..LargeChunk) :
                 \/ /\ kn[2] \in 1..Len(chunk_tasks[kn[1]].futures)
                    /\ chunk_tasks[kn[1]].futures[kn[2]] = "running"
                 \/ /\ chunk_tasks[kn[1]].st = "gpu"
                    /\ kn[2] \in 1..Len(batches[kn[1]])})

\* C15: the number of items in flight never exceeds backpressure_threshold.
C15_InFlightBound == InFlight <= backpressure_threshold

Outstanding ==
  Cardinality({kn \in (1..Len(chunk_tasks)) \X (1..LargeChunk) :
                 /\ kn[2] \in 1..Len(chunk_tasks[kn[1]].futures)
                 /\ chunk_tasks[kn[1]].futures[kn[2]] = "running"})

\* C16: the free permits never exceed backpressure_threshold, and with no
\* worker operation outstanding every permit is free.
C16_PermitsComeBack ==
  /\ _processing_semaphore <= backpressure_threshold
  /\ Outstanding = 0 => _processing_semaphore = backpressure_threshold

ExecutingChunks ==
  {k \in 1..Len(chunk_tasks) : chunk_tasks[k].st \in Executing}

Retried(i) ==
  Cardinality({n \in 1..Len(retry_results) : retry_results[n].item = i})

\* C18: no item is retried twice; an item is retried only when retry_failed
\* is set and the item had failed; when the retry pass is over every failed
\* item has been retried once, and an item whose retry failed again is
\* still in failed.
C18_RetryOnce ==
  \A i \in 1..Len(products) :
    /\ Retried(i) <= 1
    /\ Retried(i) = 1
         => /\ retry_failed
            /\ \E k \in 1..Len(batch_results) :
                 \E n \in 1..Len(batch_results[k]) :
                   batch_results[k][n].item = i /\ ~batch_results[k][n].ok
    /\ (pc \in {"metrics", "returned"} /\ ~retry_failed) => Retried(i) = 0
    /\ (pc \in {"metrics", "returned"} /\ retry_failed)
         => /\ (\E n \in 1..Len(failed) : failed[n].item = i) => Retried(i) = 1
            /\ \A n \in 1..Len(retry_results) :
                 (retry_results[n].item = i /\ ~retry_results[n].ok)
                   => \E m \in 1..Len(failed) : failed[m].item = i

\* A call has returned after a retry pass in which two items failed again.
C18_Witness ==
  /\ pc = "returned"
  /\ retry_failed
  /\ Len(retry_results) >= 2
  /\ \A n \in 1..Len(retry_results) : ~retry_results[n].ok
  /\ Len(successful) >= 1

C20_StreamFlushes ==
  stream_pc \in {"done", "raised"}
    => /\ Len(flushes) * batch_size >= source
       /\ (Len(flushes) - 1) * batch_size < source
       /\ \A k \in 1..Len(flushes) :
            flushes[k] = [n \in 1..Min(batch_size, source - (k - 1) * batch_size)
                            |-> (k - 1) * batch_size + n]

\* C21: process_stream yields only successful results, each from the window
\* it was computed for; it leaves a window only after it has yielded every
\* successful result of that window, and it pulls an item from the source
\* only between windows, so the successes of window k are yielded before any
\* item of window k+1 is pulled and no failed entry is ever yielded.
C21_YieldBeforeNextWindow ==
  /\ [](\A k \in 1..Len(yielded) : \A n \in 1..Len(yielded[k]) :
          /\ yielded[k][n].ok
          /\ \E j \in 1..Len(flushes[k]) : flushes[k][j] = yielded[k][n].item)
  /\ [][(stream_pc \in {"flush", "last_flush"} /\ stream_pc' # stream_pc
           /\ stream_pc' # "raised")
          => yielded_now = successful]_vars
  /\ [][consumed' # consumed => (stream_pc = "reading" /\ pc = "idle")]_vars

\* C21 witness: an item of the second window has been pulled after a first
\* window of two items, whose one success was yielded and whose one failure
\* was not.
C21_Witness ==
  /\ stream_pc = "reading"
  /\ Len(flushes) = 1
  /\ Len(flushes[1]) = 2
  /\ consumed = 3
  /\ Len(yielded[1]) = 1

\* C22: when process_stream is over, it has pulled every item of the source
\* and each source item is in exactly one of the windows handed to
\* process_batch, at exactly one place.
C22_EveryItemOnce ==
  stream_pc \in {"done", "raised"}
    => /\ consumed = source
       /\ \A i \in 1..source :
            Cardinality({<<k, n>> \in (1..Len(flushes)) \X (1..LargeChunk) :
                           n <= Len(flushes[k]) /\ flushes[k][n] = i}) = 1

\* C23: publish with retry_failed=True on one registered platform whose
\* publish raises on its first call and succeeds on its second returns
\* exactly one result, the successful one, after exactly two publish calls.
C23_RetrySucceeds ==
  (/\ mp_pc = "returned"
   /\ with_retry
   /\ validate_listing(listing_data)
   /\ platforms = <<"ebay">>
   /\ side_effect = <<"raise", "published">>)
    => /\ Len(publish_results) = 1
       /\ publish_results[1].status = "published"
       /\ call_count("ebay") = 2

\* The result publish has to return for the k-th requested platform, given
\* the results of the platform's publisher.
expected_result(k) ==
  LET platform == platforms[k]
      earlier == Cardinality({j \in 1..(k - 1) : platforms[j] = platform})
      outcome == side_effect[Min(earlier + 1, Len(side_effect))]
  IN IF ~is_registered(platform)
     THEN PublishResult(platform, "failed", "Platform not registered")
     ELSE IF ~validate_listing(listing_data)
     THEN PublishResult(platform, "failed", "Validation failed")
     ELSE IF with_retry
     THEN PublishResult(platform, "failed", "AttributeError")
     ELSE IF outcome = "raise"
     THEN PublishResult(platform, "failed", "str(e)")
     ELSE PublishResult(platform, outcome,
                        IF outcome = "failed" THEN "LongMessage" ELSE "")

\* C24: publish returns one result per requested platform, in request
\* order: FAILED for a platform that is not registered, with no call on any
\* publisher for it; FAILED for a listing that fails validation, with no
\* publish call; FAILED with the exception's message when a call raises; and
\* the platforms after a failed one are processed all the same.
C24_OneResultPerPlatform ==
  mp_pc = "returned"
    => /\ Len(publish_results) = Len(platforms)
       /\ \A k \in 1..Len(platforms) : publish_results[k] = expected_result(k)
       /\ \A n \in 1..Len(invoked) :
            /\ is_registered(invoked[n].platform)
            /\ invoked[n].method = "publish" => validate_listing(listing_data)

\* C24 witness: two platforms were requested, the first is not registered,
\* the publish call on the second raised, and both have their FAILED result.
C24_Witness ==
  /\ mp_pc = "returned"
  /\ platforms = <<"amazon", "shop">>
  /\ ~with_retry
  /\ side_effect = <<"raise">>
  /\ Len(publish_results) = 2
  /\ publish_results[2].error = "str(e)"

\* C25: a publish task that has ended with the item's final outcome (the
\* item is not back in the queue for a retry) has its PublishResult recorded
\* in results, where get_results finds it.
C25_OutcomeRecorded ==
  \A i \in ItemIds :
    (IsDone(i) /\ ~InQueue(i))
      => (i \in DOMAIN results /\ results[i] = active_tasks[i].result)

\* C26: while the queue is paused (_running is false and neither
\* add_to_queue nor resume has created a processing loop that has yet to
\* run), no step dispatches a queued item.
C26_PausedDispatchesNothing ==
  [][(~_running /\ \A l \in LoopIds : loops[l].pc # "created")
       => dispatched' = <<>>]_vars

C28_PoolErrorPropagates ==
  /\ [][~pool_open
          => \A k \in 1..Min(Len(chunk_tasks), Len(chunk_tasks')) :
               Len(chunk_tasks'[k].futures) <= Len(chunk_tasks[k].futures)]_vars
  /\ [][~pool_open
          => \A k \in 1..Min(Len(chunk_tasks), Len(chunk_tasks')) :
               (/\ chunk_tasks[k].st \in {"waiting", "acquire"}
                /\ chunk_tasks'[k].st \notin {"waiting", "acquire"}
                /\ ~uses_gpu(batches[k]))
                 => /\ chunk_tasks'[k].st = "raised"
                    /\ chunk_tasks'[k].err = "submit"
                    /\ chunk_tasks'[k].results = <<>>]_vars
  /\ [](\A k \in 1..Len(chunk_tasks) :
          chunk_tasks[k].err = "submit" => pc = "raised")

\* C28 witness: a process_batch call of two items made after shutdown() has
\* raised the pool's error, with no item ever submitted.
C28_Witness ==
  /\ ~pool_open
  /\ pc = "raised"
  /\ raised_by = "submit"
  /\ Len(products) = 2
  /\ \A k \in 1..Len(chunk_tasks) : chunk_tasks[k].futures = <<>>

\* C29: for a service registered as a singleton, the factory is invoked at
\* most once - exactly once as soon as the service has been resolved - and
\* every resolve of its name has returned the one instance the container
\* holds, whatever resolve and start calls were made.
C29_SingletonOnce ==
  \A n \in 1..Len(_singletons) :
    LET name == _singletons[n].name
    IN /\ factory_calls[name] <= 1
       /\ resolved[name] # <<>> => factory_calls[name] = 1
       /\ \A k \in 1..Len(resolved[name]) :
            resolved[name][k] = _singletons[n].instance

\* C29 witness: a singleton was resolved before start() and again after it.
C29_Witness ==
  \E n \in 1..Len(_singletons) :
    /\ _is_started
    /\ Len(resolved[_singletons[n].name]) = 3
    /\ di_calls = MaxDICalls

\* The names of the singletons that have start and stop, in the order they
\* were registered in.
RECURSIVE lifecycle_names(_)
lifecycle_names(entries) ==
  IF entries = <<>> THEN <<>>
  ELSE (IF has_lifecycle(Head(entries).name)
        THEN << Head(entries).name >> ELSE <<>>)
       \o lifecycle_names(Tail(entries))

\* C30: a start() call that takes the container from stopped to started has
\* called start() exactly once on every registered singleton service, in
\* registration order; a stop() call of a started container calls stop()
\* exactly once on each of them, in reverse registration order; start() on
\* a started container and stop() on a stopped one call nothing and change
\* nothing.
C30_Lifecycle ==
  [][/\ (~_is_started /\ _is_started')
          => lifecycle_calls' =
               [k \in 1..Len(lifecycle_names(_singletons)) |->
                  LifecycleCall(lifecycle_names(_singletons)[k], "start")]
     /\ (_is_started /\ ~_is_started')
          => /\ lifecycle_calls' =
                  [k \in 1..Len(lifecycle_names(_singletons)) |->
                     LifecycleCall(
                       lifecycle_names(_singletons)
                         [Len(lifecycle_names(_singletons)) + 1 - k], "stop")]
             /\ _singletons' = _singletons
     /\ (_is_started /\ _is_started')
          => /\ \A k \in 1..Len(lifecycle_calls') :
                  lifecycle_calls'[k].method \notin {"start", "stop"}
             /\ _singletons' = _singletons
     /\ (~_is_started /\ ~_is_started')
          => \A k \in 1..Len(lifecycle_calls') :
               lifecycle_calls'[k].method # "stop"]_vars

\* C30 witness: a container with two singleton services that have start and
\* stop was started and has just been stopped, the second service first.
C30_Witness ==
  /\ ~_is_started
  /\ Len(lifecycle_calls) = 2
  /\ lifecycle_calls[1].method = "stop"
  /\ lifecycle_calls[1].service = _singletons[Len(_singletons)].name
  /\ lifecycle_calls[2].service = _singletons[1].name

\* C31: a chunk that has failed does not make process_batch raise, and when
\* process_batch returns, every item of every chunk that returned results is
\* in successful or in failed.
C31_ChunksIsolated ==
  /\ (\E k \in 1..Len(chunk_tasks) : chunk_tasks[k].st = "raised")
       => pc # "raised"
  /\ pc = "returned"
       => \A k \in 1..Len(chunk_tasks) :
            chunk_tasks[k].st = "returned"
              => \A n \in 1..Len(batch_results[k]) :
                   \/ \E j \in 1..Len(successful) :
                        successful[j].item = batch_results[k][n].item
                   \/ \E j \in 1..Len(failed) :
                        failed[j].item = batch_results[k][n].item

\* C36: a chunk that has started is on the GPU path exactly when enable_gpu
\* is true and it has more than 20 items: then it is in, or has ended from,
\* the GPU path and has submitted nothing to the pool; otherwise it is on
\* the CPU path and was never in the GPU path.
C36_GpuPathChoice ==
  \A k \in 1..Len(chunk_tasks) :
    chunk_tasks[k].st # "waiting"
      => IF enable_gpu /\ Len(batches[k]) > 20
         THEN /\ chunk_tasks[k].st \in {"gpu", "returned", "raised"}
              /\ chunk_tasks[k].futures = <<>>
              /\ chunk_tasks[k].err \in {"", "recursion"}
         ELSE /\ chunk_tasks[k].st \in {"acquire", "collect", "returned",
                                        "raised"}
              /\ chunk_tasks[k].depth = 0
              /\ chunk_tasks[k].err # "recursion"

\* C36 witness: with the GPU enabled, a chunk of 21 items is in the GPU path
\* while its sibling of one item waits for its worker on the CPU path.
C36_Witness ==
  /\ enable_gpu
  /\ Len(chunk_tasks) = 2
  /\ Len(batches[1]) = 21
  /\ chunk_tasks[1].st = "gpu"
  /\ Len(batches[2]) = 1
  /\ chunk_tasks[2].st = "collect"
  /\ chunk_tasks[2].futures # <<>>

\* C38: the window of process_stream never holds more than batch_size items;
\* a window of batch_size items is the one just handed to process_batch, and
\* an item is pulled from the source only into a window that holds fewer
\* than batch_size items (empty after a full window was processed).
C38_WindowBound ==
  /\ [](Len(window) <= batch_size)
  /\ [](Len(window) = batch_size
          => /\ stream_pc \in {"flush", "raised"}
             /\ flushes[Len(flushes)] = window)
  /\ [][consumed' # consumed
          => /\ Len(window) < batch_size
             /\ (Len(flushes) > 0 /\ consumed = Len(flushes) * batch_size)
                  => window = <<>>]_vars

\* C38 witness: after a full window of two items was processed, the third
\* item of the source is alone in the window.
C38_Witness ==
  /\ batch_size = 2
  /\ Len(flushes) = 1
  /\ consumed = 3
  /\ window = <<3>>
  /\ stream_pc = "reading"
  /\ source > 3

\* C33 as stated: clear_queue empties the queue and leaves active_tasks,
\* results, _running and the publishers as they are, and an empty queue
\* gets an item only by an add_to_queue call.
C33_EmptyUntilAdd ==
  /\ [][clear_queue
          => /\ queue' = <<>>
             /\ UNCHANGED <<active_tasks, results, _running, _publishers>>]_vars
  /\ [][(queue = <<>> /\ queue' # <<>>) => nextId' = nextId + 1]_vars

\* C33, amended: clear_queue empties the queue and leaves active_tasks,
\* results, _running and the publishers as they are, and an empty queue
\* gets an item only by an add_to_queue call or by the retry of an item whose
\* publish was in flight and has raised (the item comes back alone, with
\* retries incremented).
C33_EmptyUntilAddOrRetry ==
  /\ [][clear_queue
          => /\ queue' = <<>>
             /\ UNCHANGED <<active_tasks, results, _running, _publishers>>]_vars
  /\ [][(queue = <<>> /\ queue' # <<>>)
          => \/ nextId' = nextId + 1
             \/ \E i \in ItemIds :
                  /\ IsRunning(i)
                  /\ queue' = <<i>>
                  /\ items'[i].retries = items[i].retries + 1
                  /\ active_tasks'[i].state = "done"
                  /\ active_tasks'[i].result.status = "failed"]_vars

\* C33 witness: two items were submitted; the one that was pending is gone
\* without a result, and the one that was in flight has raised and is the
\* only item of the queue, waiting for its first retry.
C33_Witness ==
  /\ nextId = 3
  /\ \E i \in ItemIds :
       /\ queue = <<i>>
       /\ DOMAIN active_tasks = {i}
       /\ IsDone(i)
       /\ items[i].retries = 1
       /\ \A j \in ItemIds \ {i} : items[j] = NoItem /\ j \notin DOMAIN results

\* C34: when the head of the heap is not yet due, a step dispatches
\* nothing, whatever else is queued.
C34_HeadNotDueBlocks ==
  [][(queue # <<>> /\ items[queue[1]].scheduled_at > clock)
       => dispatched' = <<>>]_vars

\* C34 witness: the head is not yet due, an item behind it is, no task is
\* active, and the loop that has looked at the head sleeps.
C34_Witness ==
  /\ Len(queue) = 2
  /\ items[queue[1]].scheduled_at > clock
  /\ items[queue[2]].scheduled_at <= clock
  /\ DOMAIN active_tasks = {}
  /\ \E l \in LoopIds : loops[l].pc = "inner_sleep" /\ loops[l].now = clock

\* C37: a processing loop ends only with the queue empty and no task
\* active, and _running is false after it; and whenever the queue is not
\* empty, a processing loop is alive or created and about to run.
C37_NoStrandedItem ==
  /\ [][\A l \in LoopIds :
          (loops[l].pc # "none" /\ loops'[l].pc = "none")
            => /\ queue = <<>>
               /\ DOMAIN active_tasks = {}
               /\ ~_running']_vars
  /\ [](queue # <<>> => AliveLoops # {})

\* C37 witness: the task of the only item has raised and put the item back
\* into the queue, its done callback has not run yet, and the one processing
\* loop is alive.
C37_Witness ==
  /\ Len(queue) = 1
  /\ IsDone(queue[1])
  /\ items[queue[1]].retries = 1
  /\ nextId = 2
  /\ _running
  /\ Cardinality(AliveLoops) = 1

\* C32: the count a process_batch call computes its throughput from and the
\* counts it passes to the metrics sink are the lengths of its own successful
\* and failed lists, also when two calls on one BatchProcessor overlap.
C32_CountsMatchOwnResult ==
  \A c \in CallIds :
    /\ batch_calls[c].pc \in {"gauge", "increment", "last_increment", "returned"}
         => batch_calls[c].used = batch_calls[c].successful
    /\ batch_calls[c].pc \in {"increment", "last_increment", "returned"}
         => batch_calls[c].processed = batch_calls[c].successful
    /\ batch_calls[c].pc \in {"last_increment", "returned"}
         => batch_calls[c].reported_failed = batch_calls[c].failed

\* C35: the heap orders by priority alone, so the item popped never has a
\* higher priority value than one left behind, and among equal priorities
\* the order of arrival is not kept: of four items of one priority added
\* before the first dispatch, the third is dispatched second, ahead of the
\* second, which is still in the queue.
C35_EqualPriorityNotFifo ==
  /\ \A n \in 1..Len(pq_popped) : \A k \in 1..Len(pq_popped[n].left) :
       pq_items[pq_popped[n].id].priority
         <= pq_items[pq_popped[n].left[k]].priority
  /\ (/\ \A i, j \in 1..MaxPushed : pq_items[i].priority = pq_items[j].priority
      /\ Len(pq_popped) >= 2
      /\ Len(pq_popped[1].left) = 3
      /\ Len(pq_popped[2].left) = 2)
       => /\ pq_popped[1].id = 1
          /\ pq_popped[2].id = 3
          /\ \E k \in 1..2 : pq_popped[2].left[k] = 2

\* C35 witness: item 3 has been popped while item 2, added before it with the
\* same priority, was still in the heap.
C35_Witness ==
  /\ Len(pq_popped) >= 2
  /\ pq_popped[2].id = 3
  /\ \E k \in 1..Len(pq_popped[2].left) : pq_popped[2].left[k] = 2
  /\ pq_items[2].priority = pq_items[3].priority

====
